---- MODULE Spec2Model ----
(***************************************************************************)
(* Model of the EasyRSA wrapper (src/src/index.ts): the option resolver of *)
(* the constructor, the command builders of the public operations, the     *)
(* CA-key precondition check, the subprocess invoker and its output        *)
(* classifier, together with the key-store the bundled easyrsa tool keeps  *)
(* on disk.                                                                *)
(*                                                                         *)
(* Text is a sequence of tokens.  A token is either one shell-significant  *)
(* character (double quote, single quote, dollar, backtick, backslash,     *)
(* space, semicolon) or a chunk of ordinary characters, so that substring  *)
(* search, escaping and shell parsing are computed on the text itself.     *)
(***************************************************************************)
EXTENDS Integers, Sequences, FiniteSets, TLC

\* ------------------------------------------------------------------ text

DQ == "\""
SQ == "'"
DOLLAR == "$"
\* The backtick character (the token is spelled out: the string lexer
\* does not take the character itself).
BTICK == "<backtick>"
BSLASH == "\\"
SP == " "

\* The five characters of the character class in the pattern of escapeShell.
EscapedChars == {DQ, SQ, DOLLAR, BTICK, BSLASH}

\* JavaScript truthiness of an optional string argument: undefined and the
\* empty string are falsy.  Undefined is the argument left out.
Undefined == <<"undefined">>
\* A mutant of Truthy for which the empty string counts as a value.
TruthyIfDefined(s) == s # Undefined

Truthy(s) == s # Undefined /\ s # <<>>

RECURSIVE Concat(_)
Concat(ss) == IF ss = <<>> THEN <<>> ELSE Head(ss) \o Concat(Tail(ss))

\* Array.prototype.join with a space, over the pushed option strings.
RECURSIVE JoinSp(_)
JoinSp(ss) ==
    IF ss = <<>> THEN <<>>
    ELSE IF Len(ss) = 1 THEN ss[1]
    ELSE ss[1] \o <<SP>> \o JoinSp(Tail(ss))

\* String.prototype.includes: needle occurs as a contiguous run of hay.
Includes(hay, needle) ==
    \E i \in 0..(Len(hay) - Len(needle)) :
        \A j \in 1..Len(needle) : hay[i + j] = needle[j]

\* cmd.replace(pattern, backslash followed by the matched character)
RECURSIVE escapeBody(_)
escapeBody(cmd) ==
    IF cmd = <<>> THEN <<>>
    ELSE (IF Head(cmd) \in EscapedChars
             THEN <<BSLASH, Head(cmd)>> ELSE <<Head(cmd)>>)
         \o escapeBody(Tail(cmd))

escapeShell(cmd) == <<DQ>> \o escapeBody(cmd) \o <<DQ>>


\* ----------------------------------------------------------------- shell

SEMI == ";"
EXPANSION == "<expansion>"
NEWCMD == <<"<next command>">>

\* String.prototype.split on a space: the pieces between the space tokens.
RECURSIVE SplitSpAcc(_, _, _)
SplitSpAcc(s, cur, out) ==
    IF s = <<>> THEN Append(out, cur)
    ELSE IF Head(s) = SP THEN SplitSpAcc(Tail(s), <<>>, Append(out, cur))
    ELSE SplitSpAcc(Tail(s), Append(cur, Head(s)), out)

SplitSp(s) == SplitSpAcc(s, <<>>, <<>>)

EndWord(cur, started, words) == IF started THEN Append(words, cur) ELSE words

\* The words /bin/sh makes of a command line: blanks separate words outside
\* quotes, a backslash outside quotes keeps the next character, inside double
\* quotes it keeps only dollar, backtick, double quote and backslash (before
\* any other character the backslash itself stays), single quotes keep
\* everything, an unescaped dollar or backtick is an expansion and an
\* unquoted semicolon starts another command.
RECURSIVE Sh(_, _, _, _, _)
Sh(s, mode, cur, started, words) ==
    IF s = <<>> THEN EndWord(cur, started, words)
    ELSE LET c == Head(s)
             r == Tail(s)
         IN CASE mode = "plain" ->
                 (CASE c = SP -> Sh(r, "plain", <<>>, FALSE, EndWord(cur, started, words))
                    [] c = SEMI ->
                         Sh(r, "plain", <<>>, FALSE,
                            Append(EndWord(cur, started, words), NEWCMD))
                    [] c = DQ -> Sh(r, "dq", cur, TRUE, words)
                    [] c = SQ -> Sh(r, "sq", cur, TRUE, words)
                    [] c = BSLASH /\ r # <<>> ->
                         Sh(Tail(r), "plain", Append(cur, Head(r)), TRUE, words)
                    [] c \in {DOLLAR, BTICK} ->
                         Sh(r, "plain", Append(cur, EXPANSION), TRUE, words)
                    [] OTHER -> Sh(r, "plain", Append(cur, c), TRUE, words))
              [] mode = "dq" ->
                 (CASE c = DQ -> Sh(r, "plain", cur, TRUE, words)
                    [] c = BSLASH /\ r # <<>> /\ Head(r) \in {DOLLAR, BTICK, DQ, BSLASH} ->
                         Sh(Tail(r), "dq", Append(cur, Head(r)), TRUE, words)
                    [] c \in {DOLLAR, BTICK} ->
                         Sh(r, "dq", Append(cur, EXPANSION), TRUE, words)
                    [] OTHER -> Sh(r, "dq", Append(cur, c), TRUE, words))
              [] OTHER ->
                 (CASE c = SQ -> Sh(r, "plain", cur, TRUE, words)
                    [] OTHER -> Sh(r, "sq", Append(cur, c), TRUE, words))

ShellWords(s) == Sh(s, "plain", <<>>, FALSE, <<>>)

EasyrsaBin == <<"easyrsa">>

\* spawn(easyrsaBin, args.split(' '), {shell: true}): the shell is handed the
\* binary and the pieces joined by spaces, and the tool gets the words after
\* the binary's own.
SpawnWords(args) == Tail(ShellWords(JoinSp(<<EasyrsaBin>> \o SplitSp(args))))


\* ------------------------------------------------- diagnostic substrings

\* The substrings the close handler searches for.  Each is cut where the
\* shorter wording of the classification table starts or ends, so that a text
\* holding only the shorter wording is a different text.
PatCaExists == <<"Unable to create a CA as you ", "already seem to have one set up", ".">>
PatPkiMissing == <<"EASYRSA_", "PKI does not exist (perhaps you need to run init", "-pki)?">>
PatBadPwKey == <<"Could not read CA private key from">>
PatBadPwHint == <<"maybe ", "wrong password">>
PatCaMissing == <<"Missing expected CA file">>
PatConflict == <<"Conflicting certificate exists at">>
PatNoCertRevoke == <<"Unable to revoke as ", "no certificate was found">>
PatNoCertFile == <<"Missing certificate file">>

\* The marker isPrivateKeyEncrypted searches the CA key file for.
EncryptedMarker == <<"ENCRYPTED">>

\* ------------------------------------------------------------- key-store

\* Target names of certificates, as the tool receives them.
Names == {<<"client">>}

\* The key-store on disk: whether the PKI directory exists, the CA key
\* ("none", "plain" or "enc", and the password it is encrypted with), the
\* names with a request and a private key, with a certificate in issued/,
\* with a superseded certificate in renewed/, the revoked names and the
\* revocation list (the revoked names it was generated from).
NoStore ==
    [init |-> FALSE, ca |-> "none", caPass |-> <<>>, reqs |-> {}, issued |-> {},
     renewed |-> {}, revoked |-> {}, hasCrl |-> FALSE, crl |-> {}]

EmptyStore == [NoStore EXCEPT !.init = TRUE]

\* The text of pki/private/ca.key, <<>> standing for no such file.
CaKeyFile(st) ==
    CASE st.ca = "plain" -> <<"-----BEGIN ", "PRIVATE KEY-----">>
      [] st.ca = "enc" -> <<"-----BEGIN ", "ENCRYPTED", " PRIVATE KEY-----">>
      [] OTHER -> <<>>

\* --------------------------------------------------- the easyrsa tool

OptionNames == {"--req-cn=", "--passin=pass:", "--passout=pass:"}

IsOption(w) == w # <<>> /\ Head(w) \in OptionNames

\* The tool reads its options up to the first word that is none.
RECURSIVE Positional(_)
Positional(words) ==
    IF words = <<>> THEN <<>>
    ELSE IF IsOption(Head(words)) THEN Positional(Tail(words))
    ELSE words

RECURSIVE OptVal(_, _)
OptVal(words, name) ==
    IF words = <<>> \/ ~IsOption(Head(words)) THEN Undefined
    ELSE LET rest == OptVal(Tail(words), name)
         IN IF rest # Undefined THEN rest
            ELSE IF Head(Head(words)) = name THEN Tail(Head(words))
            ELSE Undefined

ToolOk(st, cmd) ==
    [code |-> 0, stdout |-> <<cmd, ": done">>, stderr |-> <<>>, st |-> st]

\* The tool reports its own errors on stdout, and openssl's on stderr.
ToolDie(st, pat) ==
    [code |-> 1, stdout |-> <<"Easy-RSA error: ">> \o pat \o <<" (see the log)">>,
     stderr |-> <<>>, st |-> st]

ToolBadPw(st) ==
    [code |-> 1, stdout |-> <<"Easy-RSA error: ", "signing failed">>,
     stderr |-> PatBadPwKey \o <<" pki/private/ca.key, ">> \o PatBadPwHint,
     st |-> st]

\* A failure the close handler has no pattern for.
ToolFail(st, text) ==
    [code |-> 1, stdout |-> <<"Easy-RSA error: ", "command failed">>,
     stderr |-> text, st |-> st]

UnknownStderr == <<"openssl: ", "unexpected failure">>

\* The tool's report of a word that is no command of its.
UnknownCommand == <<"Unknown command", ". Run without commands for usage help.">>

\* The CA key can be used with the pass-in password given: a plain key needs
\* none, an encrypted key needs its own.
PwOk(st, words) ==
    \/ st.ca = "plain"
    \/ st.ca = "enc" /\ OptVal(words, "--passin=pass:") = st.caPass

\* A command on the CA: first the PKI directory, then the CA files, then the
\* target and the password.  Which of the last two is looked at first is not
\* fixed by the specification: pwFirst chooses.
CaCommand(st, words, pwFirst, targetErr, done) ==
    IF st.ca = "none" THEN ToolDie(st, PatCaMissing)
    ELSE IF pwFirst /\ ~PwOk(st, words) THEN ToolBadPw(st)
    ELSE IF targetErr # <<>> THEN ToolDie(st, targetErr)
    ELSE IF ~PwOk(st, words) THEN ToolBadPw(st)
    ELSE done

\* The commands of the tool that the operations use.
Commands ==
    {"init-pki", "build-ca", "gen-req", "sign-req", "revoke", "renew",
     "revoke-renewed", "gen-crl"}

\* The tool dispatches on its first word that is no option: a word that is no
\* command ends the run at once, init-pki makes the directory, and every other
\* command looks for the directory before anything else.
EasyRsaTool(st, words, pwFirst) ==
    LET pos == Positional(words)
        cmd == IF pos = <<>> \/ pos[1] = <<>> THEN "" ELSE pos[1][1]
        arg(i) == IF Len(pos) >= i THEN pos[i] ELSE <<>>
        nopass == \E i \in 2..Len(pos) : pos[i] = <<"nopass">>
        passout == OptVal(words, "--passout=pass:")
    IN IF cmd \notin Commands \/ Len(pos[1]) # 1 THEN ToolDie(st, UnknownCommand)
       ELSE IF cmd = "init-pki"
       THEN IF arg(2) = <<"soft">> /\ st.init THEN ToolOk(st, cmd)
            ELSE ToolOk(EmptyStore, cmd)
       ELSE IF ~st.init THEN ToolDie(st, PatPkiMissing)
       ELSE
       CASE cmd = "build-ca" ->
              IF st.ca # "none" THEN ToolDie(st, PatCaExists)
              ELSE IF nopass THEN ToolOk([st EXCEPT !.ca = "plain"], cmd)
              ELSE IF Truthy(passout)
                   THEN ToolOk([st EXCEPT !.ca = "enc", !.caPass = passout], cmd)
              ELSE ToolFail(st, UnknownStderr)
         [] cmd = "gen-req" ->
              IF nopass \/ Truthy(passout)
              THEN ToolOk([st EXCEPT !.reqs = @ \cup {arg(2)}], cmd)
              ELSE ToolFail(st, UnknownStderr)
         [] cmd = "sign-req" ->
              CaCommand(st, words, pwFirst,
                  IF arg(3) \in st.issued THEN PatConflict ELSE <<>>,
                  IF arg(3) \in st.reqs
                  THEN ToolOk([st EXCEPT !.issued = @ \cup {arg(3)}], cmd)
                  ELSE ToolFail(st, UnknownStderr))
         [] cmd = "revoke" ->
              CaCommand(st, words, pwFirst,
                  IF arg(2) \in st.issued THEN <<>> ELSE PatNoCertRevoke,
                  ToolOk([st EXCEPT !.issued = @ \ {arg(2)}, !.reqs = @ \ {arg(2)},
                                    !.revoked = @ \cup {arg(2)}], cmd))
         [] cmd = "renew" ->
              CaCommand(st, words, pwFirst,
                  IF arg(2) \in st.issued THEN <<>> ELSE PatNoCertFile,
                  IF arg(2) \in st.renewed THEN ToolFail(st, UnknownStderr)
                  ELSE ToolOk([st EXCEPT !.renewed = @ \cup {arg(2)}], cmd))
         [] cmd = "revoke-renewed" ->
              CaCommand(st, words, pwFirst,
                  IF arg(2) \in st.renewed THEN <<>> ELSE PatNoCertRevoke,
                  ToolOk([st EXCEPT !.renewed = @ \ {arg(2)},
                                    !.revoked = @ \cup {arg(2)}], cmd))
         [] OTHER ->
              CaCommand(st, words, pwFirst, <<>>,
                  ToolOk([st EXCEPT !.hasCrl = TRUE, !.crl = st.revoked], cmd))


\* ------------------------------------------------------------ outcomes

\* What a promise settles with.  A rejection is either an Error object
\* (isError, with its class name and message) or a bare string (the text).
\* A mutant of Res that resolves with nothing.
ResNothing(text) ==
    [kind |-> "resolved", isError |-> FALSE, name |-> "undefined", text |-> <<>>]

Res(text) == [kind |-> "resolved", isError |-> FALSE, name |-> "string", text |-> text]
ResBool(b) ==
    [kind |-> "resolved", isError |-> FALSE,
     name |-> IF b THEN "true" ELSE "false", text |-> <<>>]
ResUndefined == [kind |-> "resolved", isError |-> FALSE, name |-> "undefined", text |-> <<>>]
Err(name, message) == [kind |-> "rejected", isError |-> TRUE, name |-> name, text |-> message]
RejRaw(text) == [kind |-> "rejected", isError |-> FALSE, name |-> "string", text |-> text]

\* --------------------------------------------------- subprocess invoker

\* A mutant of Close without the row of the CA that exists.
CloseNoCaExists(code, stdout, stderr) ==
    IF code # 0 THEN
        IF Includes(stdout, PatPkiMissing) THEN Err("PkiDirNotFoundError", <<>>)
        ELSE IF Includes(stderr, PatBadPwKey) /\ Includes(stderr, PatBadPwHint)
            THEN Err("BadCaPasswordError", <<>>)
        ELSE IF Includes(stdout, PatCaMissing)
            THEN Err("CaNotFoundError", <<"CA file not exists">>)
        ELSE IF Includes(stdout, PatConflict)
            THEN Err("CertificateAlreadyExistsError", <<>>)
        ELSE IF Includes(stdout, PatNoCertRevoke) \/ Includes(stdout, PatNoCertFile)
            THEN Err("CertificateNotFoundError", <<>>)
        ELSE RejRaw(stderr)
    ELSE Res(stdout)

\* A mutant of Close that knows a missing certificate by one pattern only.
CloseNoMissingFile(code, stdout, stderr) ==
    IF code # 0 THEN
        IF Includes(stdout, PatCaExists) THEN Err("CaAlreadyExistsError", <<>>)
        ELSE IF Includes(stdout, PatPkiMissing) THEN Err("PkiDirNotFoundError", <<>>)
        ELSE IF Includes(stderr, PatBadPwKey) /\ Includes(stderr, PatBadPwHint)
            THEN Err("BadCaPasswordError", <<>>)
        ELSE IF Includes(stdout, PatCaMissing)
            THEN Err("CaNotFoundError", <<"CA file not exists">>)
        ELSE IF Includes(stdout, PatConflict)
            THEN Err("CertificateAlreadyExistsError", <<>>)
        ELSE IF Includes(stdout, PatNoCertRevoke)
            THEN Err("CertificateNotFoundError", <<>>)
        ELSE RejRaw(stderr)
    ELSE Res(stdout)

\* A mutant of Close that looks for a certificate in the way before it looks
\* for a missing CA file.
CloseConflictFirst(code, stdout, stderr) ==
    IF code # 0 THEN
        IF Includes(stdout, PatCaExists) THEN Err("CaAlreadyExistsError", <<>>)
        ELSE IF Includes(stdout, PatPkiMissing) THEN Err("PkiDirNotFoundError", <<>>)
        ELSE IF Includes(stderr, PatBadPwKey) /\ Includes(stderr, PatBadPwHint)
            THEN Err("BadCaPasswordError", <<>>)
        ELSE IF Includes(stdout, PatConflict)
            THEN Err("CertificateAlreadyExistsError", <<>>)
        ELSE IF Includes(stdout, PatCaMissing)
            THEN Err("CaNotFoundError", <<"CA file not exists">>)
        ELSE IF Includes(stdout, PatNoCertRevoke) \/ Includes(stdout, PatNoCertFile)
            THEN Err("CertificateNotFoundError", <<>>)
        ELSE RejRaw(stderr)
    ELSE Res(stdout)

\* The close handler: classification of a non-zero exit, first match wins.
Close(code, stdout, stderr) ==
    IF code # 0 THEN
        IF Includes(stdout, PatCaExists) THEN Err("CaAlreadyExistsError", <<>>)
        ELSE IF Includes(stdout, PatPkiMissing) THEN Err("PkiDirNotFoundError", <<>>)
        ELSE IF Includes(stderr, PatBadPwKey) /\ Includes(stderr, PatBadPwHint)
            THEN Err("BadCaPasswordError", <<>>)
        ELSE IF Includes(stdout, PatCaMissing)
            THEN Err("CaNotFoundError", <<"CA file not exists">>)
        ELSE IF Includes(stdout, PatConflict)
            THEN Err("CertificateAlreadyExistsError", <<>>)
        ELSE IF Includes(stdout, PatNoCertRevoke) \/ Includes(stdout, PatNoCertFile)
            THEN Err("CertificateNotFoundError", <<>>)
        ELSE RejRaw(stderr)
    ELSE Res(stdout)

\* The longest command list of an operation (gen-req then sign-req, renew then
\* revoke-renewed).
MaxCommands == 2

\* How the k-th run of a call ends when the call is set to fail as fault says:
\* fault k makes it fail with an output that holds no known pattern, fault
\* MaxCommands + k with a report of the tool that the close handler knows.
FaultOf(fault, k) ==
    IF fault = k THEN "unknown"
    ELSE IF fault = MaxCommands + k THEN "report"
    ELSE "none"

\* One run of the tool: the process the shell starts on the command line, or,
\* when fault is set, a process that fails for a reason of its own.
Spawn(st, args, fault, pwFirst) ==
    IF fault = "unknown" THEN ToolFail(st, UnknownStderr)
    ELSE IF fault = "report" THEN ToolDie(st, PatNoCertRevoke)
    ELSE EasyRsaTool(st, SpawnWords(args), pwFirst)

\* A mutant of Accumulate that keeps the last chunk only.
AccumulateLast(text, data) == data

\* stdout += data, stderr += data
Accumulate(text, data) == text \o data

\* easyrsa(args): spawns the tool, collects its output and settles at close.
easyrsa(st, args, fault, pwFirst) ==
    LET run == Spawn(st, args, fault, pwFirst)
    IN [outcome |-> Close(run.code, run.stdout, run.stderr), st |-> run.st,
        args |-> args, code |-> run.code, stdout |-> run.stdout,
        stderr |-> run.stderr]

\* -------------------------------------------------- precondition check

\* readFile of the CA key: ENOENT rejects, else the marker is searched.
isPrivateKeyEncrypted(st) ==
    LET data == CaKeyFile(st)
    IN IF data = <<>> THEN Err("CaNotFoundError", <<>>)
       ELSE ResBool(Includes(data, EncryptedMarker))

\* A mutant of Precondition that never looks at the key.
PreconditionSkipped(st, caPassword) ==
    [ok |-> TRUE, outcome |-> ResUndefined, keyRead |-> FALSE]

\* if (!caPassword && (await this.isPrivateKeyEncrypted(...))) throw ...
Precondition(st, caPassword) ==
    IF Truthy(caPassword)
    THEN [ok |-> TRUE, outcome |-> ResUndefined, keyRead |-> FALSE]
    ELSE LET r == isPrivateKeyEncrypted(st)
         IN IF r.kind = "rejected"
            THEN [ok |-> FALSE, outcome |-> r, keyRead |-> TRUE]
            ELSE IF r.name = "true"
            THEN [ok |-> FALSE,
                  outcome |-> Err("PrivateKeyIsEncryptedError", <<"CA is encrypted">>),
                  keyRead |-> TRUE]
            ELSE [ok |-> TRUE, outcome |-> ResUndefined, keyRead |-> TRUE]

\* A mutant of Catch that lets the bare string through.
CatchNothing(outcome, message) == outcome

\* catch (error) { if (error instanceof Error) throw error; throw new Error(message) }
Catch(outcome, message) ==
    IF outcome.kind = "rejected" /\ ~outcome.isError
    THEN Err("Error", message)
    ELSE outcome


\* ------------------------------------------------------ option resolver

Digest == {"md5", "sha1", "sha256", "sha224", "sha384", "sha512"}

Curve ==
    {"secp112r1", "secp112r2", "secp128r1", "secp128r2", "secp160k1",
     "secp160r1", "secp160r2", "secp192k1", "secp224k1", "secp224r1",
     "secp256k1", "secp384r1", "secp521r1", "prime192v1", "prime192v2",
     "prime192v3", "prime239v1", "prime239v2", "prime239v3", "prime256v1",
     "sect113r1", "sect113r2", "sect131r1", "sect131r2", "sect163k1",
     "sect163r1", "sect163r2", "sect193r1", "sect193r2", "sect233k1",
     "sect233r1", "sect239k1", "sect283k1", "sect283r1", "sect409k1",
     "sect409r1", "sect571k1", "sect571r1", "c2pnb163v1", "c2pnb163v2",
     "c2pnb163v3", "c2pnb176v1", "c2tnb191v1", "c2tnb191v2", "c2tnb191v3",
     "c2pnb208w1", "c2tnb239v1", "c2tnb239v2", "c2tnb239v3", "c2pnb272w1",
     "c2pnb304w1", "c2tnb359v1", "c2pnb368w1", "c2tnb431r1",
     "wap-wsg-idm-ecid-wtls1", "wap-wsg-idm-ecid-wtls3",
     "wap-wsg-idm-ecid-wtls4", "wap-wsg-idm-ecid-wtls5",
     "wap-wsg-idm-ecid-wtls6", "wap-wsg-idm-ecid-wtls7",
     "wap-wsg-idm-ecid-wtls8", "wap-wsg-idm-ecid-wtls9",
     "wap-wsg-idm-ecid-wtls10", "wap-wsg-idm-ecid-wtls11",
     "wap-wsg-idm-ecid-wtls12", "Oakley-EC2N-3", "Oakley-EC2N-4",
     "brainpoolP160r1", "brainpoolP160t1", "brainpoolP192r1",
     "brainpoolP192t1", "brainpoolP224r1", "brainpoolP224t1",
     "brainpoolP256r1", "brainpoolP256t1", "brainpoolP320r1",
     "brainpoolP320t1", "brainpoolP384r1", "brainpoolP384t1",
     "brainpoolP512r1", "brainpoolP512t1", "SM2"}

RevokeReason ==
    {"unspecified", "keyCompromise", "CACompromise", "affiliationChanged",
     "superseded", "cessationOfOperation", "certificateHold"}

DefaultKeySize == 2048
DefaultDays == 3650
DefaultCertDays == 825

\* A path is the sequence of its segments; an absolute one starts at the root.
EasyrsaDir == <<"/", "pkg", "easyrsa">>
Cwd == <<"/", "work">>
isAbsolute(p) == p # <<>> /\ Head(p) = "/"
join(a, b) == a \o b

\* The defaults of the constructor.
values ==
    [pki |-> join(EasyrsaDir, <<"pki">>), algo |-> "rsa", digest |-> "sha256",
     keySize |-> DefaultKeySize, days |-> DefaultDays, certDays |-> DefaultCertDays,
     curve |-> "sect571r1"]

OptionKeys == DOMAIN values

\* A configuration argument is a function from the fields given to their
\* values: a field left out (undefined) is not in its domain.
Given(args, k) == k \in DOMAIN args

\* args.digest && !Digest.includes(args.digest)
DigestRejected(args) ==
    Given(args, "digest") /\ args.digest # "" /\ args.digest \notin Digest

\* args.curve && !Curve.includes(args.curve)
CurveRejected(args) ==
    Given(args, "curve") /\ args.curve # "" /\ args.curve \notin Curve

\* The pki path carried into the options, <<>> when it is left undefined.
PkiPath(args) ==
    IF Given(args, "pki") /\ args.pki # <<>>
    THEN IF isAbsolute(args.pki) THEN args.pki ELSE join(Cwd, args.pki)
    ELSE <<>>

\* A mutant of ResolveOptions that fills in the default wherever the caller's
\* value is falsy, and not only where it is left out.
ResolveOptionsFalsy(args) ==
    [k \in OptionKeys |->
        IF k = "pki" THEN (IF PkiPath(args) # <<>> THEN PkiPath(args) ELSE values.pki)
        ELSE IF Given(args, k)
                /\ args[k] # (IF k \in {"keySize", "days", "certDays"} THEN 0 ELSE "")
             THEN args[k]
        ELSE values[k]]

\* defaults(pick({...args, pki: pkiPath}, ...Object.keys(values)), values)
ResolveOptions(args) ==
    [k \in OptionKeys |->
        IF k = "pki" THEN (IF PkiPath(args) # <<>> THEN PkiPath(args) ELSE values.pki)
        ELSE IF Given(args, k) THEN args[k]
        ELSE values[k]]

\* The options of an instance that was never made.
NoOptions ==
    [k \in OptionKeys |->
        IF k = "pki" THEN <<>>
        ELSE IF k \in {"keySize", "days", "certDays"} THEN 0
        ELSE ""]

\* new EasyRSA(args): validation, resolution, then updateVarsFile().
Constructor(args) ==
    IF DigestRejected(args)
    THEN [threw |-> TRUE, message |-> "Digest not valid", options |-> NoOptions,
          wrote |-> FALSE]
    ELSE IF CurveRejected(args)
    THEN [threw |-> TRUE, message |-> "Curve not valid", options |-> NoOptions,
          wrote |-> FALSE]
    ELSE [threw |-> FALSE, message |-> "", options |-> ResolveOptions(args),
          wrote |-> TRUE]


\* ---------------------------------------------------- public operations

\* What a public operation did: the outcome its caller sees, the key-store it
\* leaves, the command lines it ran in order and how each run ended, whether
\* it read the CA key file and whether it started the secondary ta.key process.
Did(outcome, st, runs, keyRead, spawned) ==
    [outcome |-> outcome, st |-> st,
     cmds |-> [i \in 1..Len(runs) |-> runs[i].args],
     runs |-> [i \in 1..Len(runs) |->
                 [code |-> runs[i].code, stdout |-> runs[i].stdout,
                  stderr |-> runs[i].stderr]],
     keyRead |-> keyRead, spawned |-> spawned]

ReqCn(commonName) ==
    IF Truthy(commonName) THEN << <<"--req-cn=">> \o escapeShell(commonName) >> ELSE <<>>

PassIn(caPassword) ==
    IF Truthy(caPassword)
    THEN << <<"--passin=pass:">> \o escapeShell(caPassword) >> ELSE <<>>

PassOut(password) ==
    IF Truthy(password)
    THEN << <<"--passout=pass:">> \o escapeShell(password) >> ELSE <<>>

\* A mutant of EasyArgs that asks for no passphrase whatever the password.
EasyArgsNoPass(password) == <<"nopass">>

EasyArgs(password) == IF Truthy(password) THEN <<>> ELSE <<"nopass">>

\* initPki({ force }: { force: boolean } = { force: true }): the force of a call
\* without an argument (given is FALSE) and of a call with {force}.
DefaultForce == TRUE
ForceOf(given, force) == IF given THEN force ELSE DefaultForce

\* A mutant of initPki that spares the key-store whatever the force.
initPkiSoft(st, force, fault) ==
    LET cmd == <<"init-pki", SP, "soft">>
        r == easyrsa(st, cmd, FaultOf(fault, 1), FALSE)
    IN Did(r.outcome, r.st, <<r>>, FALSE, r.outcome.kind = "resolved")

\* A mutant of initPki that starts the ta.key generation whatever init-pki did.
initPkiSpawnsAnyway(st, force, fault) ==
    LET cmd == <<"init-pki", SP, IF force THEN "hard" ELSE "soft">>
        r == easyrsa(st, cmd, FaultOf(fault, 1), FALSE)
    IN Did(r.outcome, r.st, <<r>>, FALSE, TRUE)

\* A mutant of initPki that waits for the ta.key generation and hands on what
\* that one gives (nothing) in place of the output of init-pki.
initPkiAwaitsTaKey(st, force, fault) ==
    LET cmd == <<"init-pki", SP, IF force THEN "hard" ELSE "soft">>
        r == easyrsa(st, cmd, FaultOf(fault, 1), FALSE)
    IN Did(IF r.outcome.kind = "resolved" THEN ResUndefined ELSE r.outcome,
           r.st, <<r>>, FALSE, r.outcome.kind = "resolved")

\* initPki({force}): init-pki, then the detached ta.key generation.
initPki(st, force, fault) ==
    LET cmd == <<"init-pki", SP, IF force THEN "hard" ELSE "soft">>
        r == easyrsa(st, cmd, FaultOf(fault, 1), FALSE)
    IN Did(r.outcome, r.st, <<r>>, FALSE, r.outcome.kind = "resolved")

\* buildCa({commonName, password})
buildCa(st, commonName, password, fault) ==
    LET both == IF Truthy(password)
                THEN << <<"--passin=pass:">> \o escapeShell(password)
                        \o <<SP, "--passout=pass:">> \o escapeShell(password) >>
                ELSE <<>>
        opts == ReqCn(commonName) \o both
        cmd == JoinSp(opts) \o <<SP, "build-ca", SP>> \o EasyArgs(password)
        r == easyrsa(st, cmd, FaultOf(fault, 1), FALSE)
    IN Did(Catch(r.outcome, <<"Fail to build CA">>), r.st, <<r>>, FALSE, FALSE)

\* A mutant of createCert that stops after the request.
createCertRequestOnly(key, st, type, name, commonName, password, caPassword, fault, pwFirst) ==
    LET opts == ReqCn(commonName) \o PassOut(password)
        cmd1 == JoinSp(opts) \o <<SP, "gen-req", SP>> \o escapeShell(name)
                \o <<SP>> \o EasyArgs(password)
        r1 == easyrsa(st, cmd1, FaultOf(fault, 1), pwFirst)
    IN Did(Catch(r1.outcome, <<"Fail to create certificate">>), r1.st, <<r1>>,
           FALSE, FALSE)

\* createCert(type, {name, commonName, password, caPassword})
createCert(key, st, type, name, commonName, password, caPassword, fault, pwFirst) ==
    LET pre == Precondition(key, caPassword)
        msg == <<"Fail to create certificate">>
        opts == ReqCn(commonName) \o PassOut(password)
        cmd1 == JoinSp(opts) \o <<SP, "gen-req", SP>> \o escapeShell(name)
                \o <<SP>> \o EasyArgs(password)
        r1 == easyrsa(st, cmd1, FaultOf(fault, 1), pwFirst)
        cmd2 == JoinSp(PassIn(caPassword)) \o <<SP, "sign-req", SP, type, SP>>
                \o escapeShell(name)
        r2 == easyrsa(r1.st, cmd2, FaultOf(fault, 2), pwFirst)
    IN IF ~pre.ok THEN Did(Catch(pre.outcome, msg), st, <<>>, pre.keyRead, FALSE)
       ELSE IF r1.outcome.kind = "rejected"
       THEN Did(Catch(r1.outcome, msg), r1.st, <<r1>>, pre.keyRead, FALSE)
       ELSE Did(Catch(r2.outcome, msg), r2.st, <<r1, r2>>, pre.keyRead, FALSE)

\* A mutant of revoke that validates the reason after the precondition check.
revokeLateValidation(key, st, name, reason, caPassword, fault, pwFirst) ==
    LET pre == Precondition(key, caPassword)
        msg == <<"Fail to create client">>
    IN IF ~pre.ok THEN Did(Catch(pre.outcome, msg), st, <<>>, pre.keyRead, FALSE)
       ELSE Did(Err("Error", <<"Reason is not valid">>), st, <<>>, pre.keyRead, FALSE)

\* revoke({name, reason, caPassword})
revoke(key, st, name, reason, caPassword, fault, pwFirst) ==
    LET pre == Precondition(key, caPassword)
        msg == <<"Fail to create client">>
        opts == IF Truthy(caPassword)
                THEN <<"--passin=pass:">> \o escapeShell(caPassword) ELSE <<>>
        cmd == opts \o <<SP, "revoke", SP>> \o escapeShell(name) \o <<SP, reason>>
        r == easyrsa(st, cmd, FaultOf(fault, 1), pwFirst)
    IN IF reason \notin RevokeReason
       THEN Did(Err("Error", <<"Reason is not valid">>), st, <<>>, FALSE, FALSE)
       ELSE IF ~pre.ok THEN Did(Catch(pre.outcome, msg), st, <<>>, pre.keyRead, FALSE)
       ELSE IF r.outcome.kind = "rejected"
       THEN Did(Catch(r.outcome, msg), r.st, <<r>>, pre.keyRead, FALSE)
       ELSE Did(ResUndefined, r.st, <<r>>, pre.keyRead, FALSE)

\* A mutant of renew that runs revoke-renewed whatever the renew command did.
renewKeepsGoing(key, st, name, commonName, password, caPassword, fault, pwFirst) ==
    LET pre == Precondition(key, caPassword)
        msg == <<"Fail to renew certificate">>
        opts == PassIn(caPassword) \o PassOut(password)
        cmd1 == JoinSp(opts) \o <<SP, "renew", SP>> \o escapeShell(name)
                \o <<SP>> \o EasyArgs(password)
        r1 == easyrsa(st, cmd1, FaultOf(fault, 1), pwFirst)
        cmd2 == JoinSp(opts) \o <<SP, "revoke-renewed", SP>> \o escapeShell(name)
        r2 == easyrsa(r1.st, cmd2, FaultOf(fault, 2), pwFirst)
    IN IF ~pre.ok THEN Did(Catch(pre.outcome, msg), st, <<>>, pre.keyRead, FALSE)
       ELSE IF r1.outcome.kind = "rejected"
       THEN Did(Catch(r1.outcome, msg), r2.st, <<r1, r2>>, pre.keyRead, FALSE)
       ELSE Did(Catch(r2.outcome, msg), r2.st, <<r1, r2>>, pre.keyRead, FALSE)

\* A mutant of renew that resolves once the renew command succeeded, whatever
\* revoke-renewed did.
renewForgivesSecond(key, st, name, commonName, password, caPassword, fault, pwFirst) ==
    LET pre == Precondition(key, caPassword)
        msg == <<"Fail to renew certificate">>
        cn == IF Truthy(commonName)
              THEN << <<"--req-cn=", DQ>> \o escapeShell(commonName) \o <<DQ>> >>
              ELSE <<>>
        opts == cn \o PassIn(caPassword) \o PassOut(password)
        cmd1 == JoinSp(opts) \o <<SP, "renew", SP>> \o escapeShell(name)
                \o <<SP>> \o EasyArgs(password)
        r1 == easyrsa(st, cmd1, FaultOf(fault, 1), pwFirst)
        cmd2 == JoinSp(opts) \o <<SP, "revoke-renewed", SP>> \o escapeShell(name)
        r2 == easyrsa(r1.st, cmd2, FaultOf(fault, 2), pwFirst)
    IN IF ~pre.ok THEN Did(Catch(pre.outcome, msg), st, <<>>, pre.keyRead, FALSE)
       ELSE IF r1.outcome.kind = "rejected"
       THEN Did(Catch(r1.outcome, msg), r1.st, <<r1>>, pre.keyRead, FALSE)
       ELSE Did(r1.outcome, r2.st, <<r1, r2>>, pre.keyRead, FALSE)

\* renew({name, commonName, password, caPassword})
renew(key, st, name, commonName, password, caPassword, fault, pwFirst) ==
    LET pre == Precondition(key, caPassword)
        msg == <<"Fail to renew certificate">>
        cn == IF Truthy(commonName)
              THEN << <<"--req-cn=", DQ>> \o escapeShell(commonName) \o <<DQ>> >>
              ELSE <<>>
        opts == cn \o PassIn(caPassword) \o PassOut(password)
        cmd1 == JoinSp(opts) \o <<SP, "renew", SP>> \o escapeShell(name)
                \o <<SP>> \o EasyArgs(password)
        r1 == easyrsa(st, cmd1, FaultOf(fault, 1), pwFirst)
        cmd2 == JoinSp(opts) \o <<SP, "revoke-renewed", SP>> \o escapeShell(name)
        r2 == easyrsa(r1.st, cmd2, FaultOf(fault, 2), pwFirst)
    IN IF ~pre.ok THEN Did(Catch(pre.outcome, msg), st, <<>>, pre.keyRead, FALSE)
       ELSE IF r1.outcome.kind = "rejected"
       THEN Did(Catch(r1.outcome, msg), r1.st, <<r1>>, pre.keyRead, FALSE)
       ELSE IF r2.outcome.kind = "rejected"
       THEN Did(Catch(r2.outcome, msg), r2.st, <<r1, r2>>, pre.keyRead, FALSE)
       ELSE Did(r1.outcome, r2.st, <<r1, r2>>, pre.keyRead, FALSE)

\* genCrl(caPassword)
genCrl(key, st, caPassword, fault, pwFirst) ==
    LET pre == Precondition(key, caPassword)
        msg == <<"Fail to create crl">>
        opts == IF Truthy(caPassword)
                THEN <<"--passin=pass:">> \o escapeShell(caPassword) ELSE <<>>
        cmd == opts \o <<SP, "gen-crl">>
        r == easyrsa(st, cmd, FaultOf(fault, 1), pwFirst)
    IN IF ~pre.ok THEN Did(Catch(pre.outcome, msg), st, <<>>, pre.keyRead, FALSE)
       ELSE Did(Catch(r.outcome, msg), r.st, <<r>>, pre.keyRead, FALSE)


\* ------------------------------------------------------------- the state

VARIABLES
    store,        \* the key-store on disk
    last,         \* the last event: a public call (arguments, key-store before,
                  \* result) or the exit of a detached ta.key process
    instance,     \* the EasyRSA instance: whether one was made, its options
    varsFile,     \* the settings file of the tool: written or not, its content,
                  \* how many times it was written
    ctor,         \* the last construction: arguments, thrown message, write
    scope,        \* which sets the calls draw their arguments from (fixed)
    taRunning,    \* detached ta.key processes that have not exited yet
    instances,    \* the EasyRSA instances of a process that makes several
    stores,       \* the key-stores on disk of such a process, by their path
    proc          \* a run of the tool as easyrsa() sees it: the chunks still to
                  \* come, the text collected, the close event, the settlements

vars ==
    <<store, last, instance, varsFile, ctor, scope, taRunning, instances, stores, proc>>

\* How many detached ta.key processes may be running at once.
MaxTaRunning == 1

\* Arguments of the calls.  The scope "usage" runs the operations on a tool
\* that fails only for the state of the key-store; the scope "faults" lets any
\* invocation of the tool fail for a reason of its own, with fewer arguments.
PwA == <<"Test", SQ, DOLLAR>>
PwB == <<"a">>
CommonName == <<"My", SP, "CA">>
CaPasswords == IF scope = "faults" THEN {Undefined, PwA} ELSE {Undefined, <<>>, PwA, PwB}
BuildCaPasswords == IF scope = "faults" THEN {Undefined, PwA} ELSE {Undefined, <<>>, PwA}
SubjectPasswords == {Undefined}
CommonNames == IF scope = "faults" THEN {Undefined} ELSE {Undefined, CommonName}
Reasons == IF scope = "faults" THEN {"unspecified"} ELSE {"unspecified", "expired"}

\* The run that fails for a reason of its own in a call of up to n commands:
\* none (0), or the k-th, without or with a report that the close handler
\* knows (see FaultOf).
Faults(n) == IF scope = "faults" THEN 0..n \cup {MaxCommands + k : k \in 1..n} ELSE {0}

\* The orders in which the tool may look at the password and at the target:
\* they differ only for an encrypted CA key and a pass-in password.
PwOrders(caPassword) ==
    IF store.ca = "enc" /\ Truthy(caPassword) THEN BOOLEAN ELSE {FALSE}

NoCall ==
    [op |-> "none", name |-> <<>>, commonName |-> Undefined, password |-> Undefined,
     caPassword |-> Undefined, reason |-> "", force |-> FALSE, fault |-> 0,
     pre |-> NoStore, outcome |-> ResUndefined, cmds |-> <<>>, keyRead |-> FALSE,
     runs |-> <<>>, spawned |-> FALSE, taFailed |-> FALSE, taStderr |-> <<>>,
     logged |-> FALSE, self |-> 0, keyPath |-> <<>>, toolPath |-> <<>>,
     given |-> TRUE]

Call(op, name, commonName, password, caPassword, reason, force, fault, d) ==
    [op |-> op, name |-> name, commonName |-> commonName, password |-> password,
     caPassword |-> caPassword, reason |-> reason, force |-> force, fault |-> fault,
     pre |-> store, outcome |-> d.outcome, cmds |-> d.cmds, keyRead |-> d.keyRead,
     runs |-> d.runs, spawned |-> d.spawned, taFailed |-> FALSE, taStderr |-> <<>>,
     logged |-> FALSE, self |-> 0, keyPath |-> <<>>, toolPath |-> <<>>,
     given |-> TRUE]

\* The configuration of the test suite: {pki: './.tmp/pki', algo: 'rsa', keySize: 1024}.
TestArgs == [pki |-> <<".tmp", "pki">>, algo |-> "rsa", keySize |-> 1024]

NoInstance == [made |-> FALSE, options |-> NoOptions]
NoVarsFile == [written |-> FALSE, content |-> NoOptions, writes |-> 0]

\* writeFileSync(join(this.easyrsaDir, 'vars'), varsComplete)
Written(file, options) ==
    [written |-> TRUE, content |-> options, writes |-> file.writes + 1]

\* How many times the settings file may be written.
MaxWrites == 2
NoCtor == [called |-> FALSE, args |-> <<>>, threw |-> FALSE, message |-> "", wrote |-> FALSE]

\* The instances of a process that makes several, each with the pki path it is
\* constructed with: a relative one and an absolute one.
Ids == {1, 2}

InstanceArgs(i) ==
    IF i = 1 THEN [pki |-> <<".tmp", "pki">>] ELSE [pki |-> <<"/", "srv", "pki">>]

\* The paths of the key-stores of these instances.
StorePaths == {Constructor(InstanceArgs(i)).options.pki : i \in Ids}

NoInstances == [i \in Ids |-> NoInstance]
NoStores == [p \in StorePaths |-> NoStore]

\* No run of the tool that is watched chunk by chunk.
NoProc ==
    [out |-> <<>>, err |-> <<>>, allOut |-> <<>>, allErr |-> <<>>, cutOut |-> <<>>,
     code |-> 0,
     stdout |-> <<>>, stderr |-> <<>>, closed |-> FALSE, settled |-> 0,
     outcome |-> ResUndefined]

\* A process that makes one instance only.
OneInstance == instances = NoInstances /\ stores = NoStores

\* The state after new EasyRSA(easyrsaConf) on a machine with no key-store.
InitWith(sc) ==
    /\ store = NoStore
    /\ last = NoCall
    /\ instance = [made |-> TRUE, options |-> Constructor(TestArgs).options]
    /\ varsFile = Written(NoVarsFile, Constructor(TestArgs).options)
    /\ ctor = [called |-> TRUE, args |-> TestArgs, threw |-> FALSE, message |-> "",
               wrote |-> TRUE]
    /\ scope = sc
    /\ taRunning = 0
    /\ OneInstance
    /\ proc = NoProc

Init == InitWith("usage")

InitFault == InitWith("faults")

Frame == UNCHANGED <<instance, varsFile, ctor, scope, instances, stores, proc>>

InitPki ==
    /\ instance.made
    /\ \E given \in BOOLEAN, fault \in Faults(1) :
       \E force \in (IF given THEN BOOLEAN ELSE {FALSE}) :
        \E d \in {initPki(store, ForceOf(given, force), fault)} :
           /\ d.spawned => taRunning < MaxTaRunning
           /\ store' = d.st
           /\ last' = [Call("initPki", <<>>, Undefined, Undefined, Undefined, "",
                            force, fault, d) EXCEPT !.given = given]
           /\ taRunning' = IF d.spawned THEN taRunning + 1 ELSE taRunning
    /\ Frame

BuildCa ==
    /\ instance.made
    /\ \E commonName \in CommonNames, password \in BuildCaPasswords,
          fault \in Faults(1) :
        \E d \in {buildCa(store, commonName, password, fault)} :
           /\ store' = d.st
           /\ last' = Call("buildCa", <<>>, commonName, password, Undefined, "",
                           FALSE, fault, d)
    /\ UNCHANGED taRunning
    /\ Frame

CreateCertCall(op, type) ==
    /\ instance.made
    /\ \E name \in Names, commonName \in CommonNames, password \in SubjectPasswords,
          caPassword \in CaPasswords, fault \in Faults(2) :
       \E pwFirst \in PwOrders(caPassword) :
        \E d \in {createCert(store, store, type, name, commonName, password, caPassword,
                            fault, pwFirst)} :
           /\ store' = d.st
           /\ last' = Call(op, name, commonName, password, caPassword, "", FALSE,
                           fault, d)
    /\ UNCHANGED taRunning
    /\ Frame

CreateServer == CreateCertCall("createServer", "server")

CreateClient == CreateCertCall("createClient", "client")

Revoke ==
    /\ instance.made
    /\ \E name \in Names, reason \in Reasons, caPassword \in CaPasswords,
          fault \in Faults(1) :
       \E pwFirst \in PwOrders(caPassword) :
        \E d \in {revoke(store, store, name, reason, caPassword, fault, pwFirst)} :
           /\ store' = d.st
           /\ last' = Call("revoke", name, Undefined, Undefined, caPassword, reason,
                           FALSE, fault, d)
    /\ UNCHANGED taRunning
    /\ Frame

Renew ==
    /\ instance.made
    /\ \E name \in Names, commonName \in CommonNames, password \in SubjectPasswords,
          caPassword \in CaPasswords, fault \in Faults(2) :
       \E pwFirst \in PwOrders(caPassword) :
        \E d \in {renew(store, store, name, commonName, password, caPassword, fault, pwFirst)} :
           /\ store' = d.st
           /\ last' = Call("renew", name, commonName, password, caPassword, "", FALSE,
                           fault, d)
    /\ UNCHANGED taRunning
    /\ Frame

GenCrl ==
    /\ instance.made
    /\ \E caPassword \in CaPasswords, fault \in Faults(1) :
       \E pwFirst \in PwOrders(caPassword) :
        \E d \in {genCrl(store, store, caPassword, fault, pwFirst)} :
           /\ store' = d.st
           /\ last' = Call("genCrl", <<>>, Undefined, Undefined, caPassword, "", FALSE,
                           fault, d)
    /\ UNCHANGED taRunning
    /\ Frame

\* The execFile callback (_stderr, _stdout, err) of the ta.key generation: its
\* third argument is the text the process wrote to stderr.
TaKeyExit ==
    /\ taRunning > 0
    /\ \E failed \in BOOLEAN, stderr \in {<<>>, <<"openvpn: ", "message">>} :
        last' = [NoCall EXCEPT !.op = "taKeyExit", !.pre = store, !.taFailed = failed,
                                !.taStderr = stderr, !.logged = stderr # <<>>]
    /\ taRunning' = taRunning - 1
    /\ UNCHANGED store
    /\ Frame

Next ==
    \/ InitPki
    \/ BuildCa
    \/ CreateServer
    \/ CreateClient
    \/ Revoke
    \/ Renew
    \/ GenCrl
    \/ TaKeyExit

Spec == Init /\ [][Next]_vars

SpecFault == InitFault /\ [][Next]_vars


\* --------------------------------------------------------- construction

\* Arguments of new EasyRSA(args).  A field that is left out is given as the
\* marker of its type; verbose is a field the constructor does not know.
AbsentStr == "<absent>"
AbsentPath == <<"<absent>">>
DigestArgs == {AbsentStr, "md5", "sha512", "sha3", ""}
CurveArgs == {AbsentStr, "SM2", "ed25519", ""}
PkiArgs == {AbsentPath, <<".tmp", "pki">>, <<"/", "srv", "pki">>}

MkArgs(digest, curve, pki, verbose) ==
    LET D == (IF digest # AbsentStr THEN {"digest"} ELSE {})
             \cup (IF curve # AbsentStr THEN {"curve"} ELSE {})
             \cup (IF pki # AbsentPath THEN {"pki"} ELSE {})
             \cup (IF verbose THEN {"verbose"} ELSE {})
    IN [k \in D |->
           CASE k = "digest" -> digest
             [] k = "curve" -> curve
             [] k = "pki" -> pki
             [] OTHER -> TRUE]

InitCtor ==
    /\ store = NoStore
    /\ last = NoCall
    /\ instance = NoInstance
    /\ varsFile = NoVarsFile
    /\ ctor = NoCtor
    /\ scope = "construction"
    /\ taRunning = 0
    /\ OneInstance
    /\ proc = NoProc

\* new EasyRSA(args): instance is what the expression produced, the settings
\* file keeps its content when the constructor throws before writing it.
Construct ==
    /\ scope = "construction"
    /\ \E digest \in DigestArgs, curve \in CurveArgs, pki \in PkiArgs,
          verbose \in BOOLEAN :
        \E c \in {Constructor(MkArgs(digest, curve, pki, verbose))} :
           /\ ctor' = [called |-> TRUE, args |-> MkArgs(digest, curve, pki, verbose),
                       threw |-> c.threw, message |-> c.message, wrote |-> c.wrote]
           /\ instance' = [made |-> ~c.threw, options |-> c.options]
           /\ c.wrote => varsFile.writes < MaxWrites
           /\ varsFile' = IF c.wrote THEN Written(varsFile, c.options) ELSE varsFile
    /\ UNCHANGED <<store, last, scope, taRunning, instances, stores, proc>>

NextCtor == Construct

SpecCtor == InitCtor /\ [][NextCtor]_vars


\* ------------------------------------------------ options to resolve

\* Arguments with every field of the configuration left out or given; a number
\* that is left out is given as AbsentNum.
AbsentNum == -1

FullArgs(digest, curve, pki, algo, keySize, days, certDays, verbose) ==
    LET D == (IF digest # AbsentStr THEN {"digest"} ELSE {})
             \cup (IF curve # AbsentStr THEN {"curve"} ELSE {})
             \cup (IF pki # AbsentPath THEN {"pki"} ELSE {})
             \cup (IF algo # AbsentStr THEN {"algo"} ELSE {})
             \cup (IF keySize # AbsentNum THEN {"keySize"} ELSE {})
             \cup (IF days # AbsentNum THEN {"days"} ELSE {})
             \cup (IF certDays # AbsentNum THEN {"certDays"} ELSE {})
             \cup (IF verbose THEN {"verbose"} ELSE {})
    IN [k \in D |->
           CASE k = "digest" -> digest
             [] k = "curve" -> curve
             [] k = "pki" -> pki
             [] k = "algo" -> algo
             [] k = "keySize" -> keySize
             [] k = "days" -> days
             [] k = "certDays" -> certDays
             [] OTHER -> TRUE]

\* The arguments are drawn before the construction: they stand in a
\* construction that was not made yet.
InitOptions ==
    /\ store = NoStore
    /\ last = NoCall
    /\ instance = NoInstance
    /\ varsFile = NoVarsFile
    /\ \E digest \in {AbsentStr, "md5"}, curve \in {AbsentStr, "SM2"},
          pki \in PkiArgs \cup {<<>>}, algo \in {AbsentStr, "ec"},
          keySize \in {AbsentNum, 0, 1024}, days \in {AbsentNum, 30},
          certDays \in {AbsentNum, 1}, verbose \in BOOLEAN :
        ctor = [NoCtor EXCEPT !.args = FullArgs(digest, curve, pki, algo, keySize,
                                                days, certDays, verbose)]
    /\ scope = "options"
    /\ taRunning = 0
    /\ OneInstance
    /\ proc = NoProc

\* new EasyRSA(args) with the arguments drawn.
Resolve ==
    /\ scope = "options"
    /\ ~ctor.called
    /\ \E c \in {Constructor(ctor.args)} :
       /\ ctor' = [called |-> TRUE, args |-> ctor.args, threw |-> c.threw,
                   message |-> c.message, wrote |-> c.wrote]
       /\ instance' = [made |-> ~c.threw, options |-> c.options]
       /\ varsFile' = IF c.wrote THEN Written(varsFile, c.options) ELSE varsFile
    /\ UNCHANGED <<store, last, scope, taRunning, instances, stores, proc>>

NextOptions == Resolve

SpecOptions == InitOptions /\ [][NextOptions]_vars


\* ------------------------------------------------- values on their way

\* The characters of a caller-supplied value: the five that escapeShell
\* escapes, the blank and the semicolon that the shell acts on, and a letter.
ValueChars == {DQ, SQ, DOLLAR, BTICK, BSLASH, SP, SEMI, "a"}

\* The longest value.
MaxValueLen == 2

Values == UNION {[1..n -> ValueChars] : n \in 1..MaxValueLen}

CarrierOps == {"buildCa", "createClient", "revoke", "renew", "genCrl"}

\* The value to carry is drawn before the call: it stands in the arguments of
\* a call that was not made yet.
InitShell ==
    /\ store = NoStore
    /\ \E v \in Values :
        last \in {[NoCall EXCEPT !.name = v, !.commonName = v, !.password = p,
                                 !.caPassword = v] : p \in {v, Undefined, <<>>}}
    /\ instance = [made |-> TRUE, options |-> Constructor(TestArgs).options]
    /\ varsFile = Written(NoVarsFile, Constructor(TestArgs).options)
    /\ ctor = [called |-> TRUE, args |-> TestArgs, threw |-> FALSE, message |-> "",
               wrote |-> TRUE]
    /\ scope = "shell"
    /\ taRunning = 0
    /\ OneInstance
    /\ proc = NoProc

\* One call that carries the value wherever the operation takes free text:
\* as the common name, the passwords and the target name; the subject password
\* is the value, or is left out, or is the empty string.
Deliver ==
    /\ scope = "shell"
    /\ instance.made
    /\ last.op = "none"
    /\ \E op \in CarrierOps :
        \E v \in {last.name}, p \in {last.password} :
        \E d \in {CASE op = "buildCa" -> buildCa(store, v, p, 0)
                    [] op = "createClient" ->
                          createCert(store, store, "client", v, v, p, v, 0, FALSE)
                    [] op = "revoke" ->
                          revoke(store, store, v, "unspecified", v, 0, FALSE)
                    [] op = "renew" -> renew(store, store, v, v, p, v, 0, FALSE)
                    [] OTHER -> genCrl(store, store, v, 0, FALSE)} :
           /\ store' = d.st
           /\ last' = Call(op, v, v, p, v,
                           IF op = "revoke" THEN "unspecified" ELSE "", FALSE, 0, d)
    /\ UNCHANGED taRunning
    /\ Frame

NextShell == Deliver

SpecShell == InitShell /\ [][NextShell]_vars


\* --------------------------------------------------- outputs to classify

\* The line break between the pieces of an output.
NL == "<newline>"

\* Pieces that an output may hold for each row of the close handler: nothing,
\* the text the handler looks for, or a part of that text.
CaExistsTexts == {<<>>, PatCaExists, <<"already seem to have one set up">>}
PkiMissingTexts ==
    {<<>>, PatPkiMissing, <<"PKI does not exist (perhaps you need to run init", ")">>}
BadPwKeyTexts == {<<>>, PatBadPwKey}
BadPwHintTexts == {<<>>, PatBadPwHint, <<"wrong password">>}
CaMissingTexts == {<<>>, PatCaMissing}
ConflictTexts == {<<>>, PatConflict}
NoCertTexts == {<<>>, PatNoCertRevoke, <<"no certificate was found">>, PatNoCertFile}

\* An output: its pieces, each on a line of its own.
Lines(pieces) == Concat([i \in 1..Len(pieces) |-> pieces[i] \o <<NL>>])

ExitCodes == {0, 1}

\* The output and the exit code of a process are drawn before the close
\* event: they stand as the one run of a call that was not made.
InitClose ==
    /\ store = NoStore
    /\ \E code \in ExitCodes, a \in CaExistsTexts, b \in PkiMissingTexts,
          c \in BadPwKeyTexts, d \in BadPwHintTexts, e \in CaMissingTexts,
          f \in ConflictTexts, g \in NoCertTexts :
        last = [NoCall EXCEPT !.runs = << [code |-> code,
                                           stdout |-> Lines(<<a, b, e, f, g>>),
                                           stderr |-> Lines(<<c, d>>)] >>]
    /\ instance = [made |-> TRUE, options |-> Constructor(TestArgs).options]
    /\ varsFile = Written(NoVarsFile, Constructor(TestArgs).options)
    /\ ctor = [called |-> TRUE, args |-> TestArgs, threw |-> FALSE, message |-> "",
               wrote |-> TRUE]
    /\ scope = "classifier"
    /\ taRunning = 0
    /\ OneInstance
    /\ proc = NoProc

\* The close event of the process: the promise of easyrsa() settles.
CloseEvent ==
    /\ scope = "classifier"
    /\ last.op = "none"
    /\ last' = [last EXCEPT !.op = "close",
                            !.outcome = Close(last.runs[1].code, last.runs[1].stdout,
                                              last.runs[1].stderr)]
    /\ UNCHANGED <<store, taRunning>>
    /\ Frame

NextClose == CloseEvent

SpecClose == InitClose /\ [][NextClose]_vars


\* ------------------------------------------------- output in chunks

\* The most chunks that a stream delivers its text in.
MaxChunks == 2

\* The ways to cut a text into at most n chunks, none of them empty.
RECURSIVE Cuts(_, _)
Cuts(t, n) ==
    IF t = <<>> THEN {<<>>}
    ELSE IF n <= 1 THEN {<<t>>}
    ELSE {<<t>>} \cup
         UNION {{<<SubSeq(t, 1, i)>> \o rest :
                     rest \in Cuts(SubSeq(t, i + 1, Len(t)), n - 1)} :
                i \in 1..(Len(t) - 1)}

\* What the tool writes to stdout and to stderr in its runs.
StdoutTexts ==
    {ToolOk(NoStore, "build-ca").stdout, ToolFail(NoStore, <<>>).stdout}
    \cup {ToolDie(NoStore, pat).stdout :
             pat \in {PatCaExists, PatPkiMissing, PatCaMissing, PatConflict,
                      PatNoCertRevoke, PatNoCertFile}}
StderrTexts == {<<>>, UnknownStderr, ToolBadPw(NoStore).stderr}

\* The run is drawn before its first event: its exit code, and its output
\* cut into chunks.
InitStream ==
    /\ store = NoStore
    /\ last = NoCall
    /\ instance = [made |-> TRUE, options |-> Constructor(TestArgs).options]
    /\ varsFile = Written(NoVarsFile, Constructor(TestArgs).options)
    /\ ctor = [called |-> TRUE, args |-> TestArgs, threw |-> FALSE, message |-> "",
               wrote |-> TRUE]
    /\ scope = "stream"
    /\ taRunning = 0
    /\ OneInstance
    /\ \E code \in ExitCodes, o \in StdoutTexts, e \in StderrTexts :
        \E co \in Cuts(o, MaxChunks), ce \in Cuts(e, MaxChunks) :
           proc = [NoProc EXCEPT !.out = co, !.err = ce, !.allOut = o, !.allErr = e,
                                 !.cutOut = co, !.code = code]

\* easyrsa.stdout.on('data', ...)
StdoutData ==
    /\ scope = "stream"
    /\ proc.out # <<>>
    /\ proc' = [proc EXCEPT !.out = Tail(@),
                            !.stdout = Accumulate(@, Head(proc.out))]
    /\ UNCHANGED <<store, last, taRunning>>
    /\ UNCHANGED <<instance, varsFile, ctor, scope, instances, stores>>

\* easyrsa.stderr.on('data', ...)
StderrData ==
    /\ scope = "stream"
    /\ proc.err # <<>>
    /\ proc' = [proc EXCEPT !.err = Tail(@),
                            !.stderr = Accumulate(@, Head(proc.err))]
    /\ UNCHANGED <<store, last, taRunning>>
    /\ UNCHANGED <<instance, varsFile, ctor, scope, instances, stores>>

\* easyrsa.on('close', ...): the event comes once, after both streams have
\* ended; the handler settles the promise.
ProcClose ==
    /\ scope = "stream"
    /\ ~proc.closed
    /\ proc.out = <<>> /\ proc.err = <<>>
    /\ proc' = [proc EXCEPT !.closed = TRUE, !.settled = @ + 1,
                            !.outcome = Close(proc.code, proc.stdout, proc.stderr)]
    /\ UNCHANGED <<store, last, taRunning>>
    /\ UNCHANGED <<instance, varsFile, ctor, scope, instances, stores>>

NextStream ==
    \/ StdoutData
    \/ StderrData
    \/ ProcClose

SpecStream == InitStream /\ [][NextStream]_vars


\* ------------------------------------------- several instances at once

\* The key-store that an instance reads the CA key from:
\* join(this.options.pki, 'private', 'ca.key').
Own(i) == instances[i].options.pki

\* The key-store that a run of the tool acts on: spawn() hands the tool its
\* directory and the command alone, so the tool takes the path from the
\* settings file in that directory, as it was written last.
ToolPath == varsFile.content.pki

\* The CA of such a process is built with the password PwA; the calls that
\* need the CA key come without or with it.
CallerPasswords == {Undefined, PwA}

\* No instance, no settings file and no key-store yet.
InitInstances ==
    /\ store = NoStore
    /\ last = NoCall
    /\ instance = NoInstance
    /\ varsFile = NoVarsFile
    /\ ctor = NoCtor
    /\ scope = "instances"
    /\ taRunning = 0
    /\ instances = NoInstances
    /\ stores = NoStores
    /\ proc = NoProc

\* new EasyRSA({pki}) for an instance that was not made yet: updateVarsFile()
\* writes the one settings file of the tool's directory.
NewInstance ==
    /\ scope = "instances"
    /\ \E i \in Ids :
        /\ ~instances[i].made
        /\ \E c \in {Constructor(InstanceArgs(i))} :
           /\ instances' = [instances EXCEPT ![i] = [made |-> ~c.threw,
                                                     options |-> c.options]]
           /\ varsFile' = IF c.wrote THEN Written(varsFile, c.options) ELSE varsFile
           /\ ctor' = [called |-> TRUE, args |-> InstanceArgs(i), threw |-> c.threw,
                       message |-> c.message, wrote |-> c.wrote]
    /\ UNCHANGED <<store, last, instance, scope, taRunning, stores, proc>>

\* A mutant of Settle in which the call writes the settings file again, with
\* the configuration of its instance.
SettleRewrites(i, call, d) ==
    /\ stores' = [stores EXCEPT ![ToolPath] = d.st]
    /\ last' = [call EXCEPT !.pre = stores[ToolPath], !.self = i,
                            !.keyPath = Own(i), !.toolPath = ToolPath]
    /\ varsFile' = Written(varsFile, instances[i].options)
    /\ UNCHANGED <<store, instance, ctor, scope, instances, proc>>

\* The end of a call on instance i: the tool has left its key-store as d.st.
Settle(i, call, d) ==
    /\ stores' = [stores EXCEPT ![ToolPath] = d.st]
    /\ last' = [call EXCEPT !.pre = stores[ToolPath], !.self = i,
                            !.keyPath = Own(i), !.toolPath = ToolPath]
    /\ UNCHANGED <<store, instance, varsFile, ctor, scope, instances, proc>>

InitPkiOn ==
    \E i \in Ids, force \in BOOLEAN :
        /\ instances[i].made
        /\ \E d \in {initPki(stores[ToolPath], force, 0)} :
           /\ d.spawned => taRunning < MaxTaRunning
           /\ taRunning' = IF d.spawned THEN taRunning + 1 ELSE taRunning
           /\ Settle(i, Call("initPki", <<>>, Undefined, Undefined, Undefined, "",
                             force, 0, d), d)

BuildCaOn ==
    \E i \in Ids, password \in {PwA} :
        /\ instances[i].made
        /\ \E d \in {buildCa(stores[ToolPath], Undefined, password, 0)} :
           Settle(i, Call("buildCa", <<>>, Undefined, password, Undefined, "",
                          FALSE, 0, d), d)
        /\ UNCHANGED taRunning

CreateClientOn ==
    \E i \in Ids, name \in Names, caPassword \in CallerPasswords :
        /\ instances[i].made
        /\ \E d \in {createCert(stores[Own(i)], stores[ToolPath], "client", name,
                                Undefined, Undefined, caPassword, 0, FALSE)} :
           Settle(i, Call("createClient", name, Undefined, Undefined, caPassword, "",
                          FALSE, 0, d), d)
        /\ UNCHANGED taRunning

RevokeOn ==
    \E i \in Ids, name \in Names, caPassword \in CallerPasswords :
        /\ instances[i].made
        /\ \E d \in {revoke(stores[Own(i)], stores[ToolPath], name, "unspecified",
                            caPassword, 0, FALSE)} :
           Settle(i, Call("revoke", name, Undefined, Undefined, caPassword,
                          "unspecified", FALSE, 0, d), d)
        /\ UNCHANGED taRunning

RenewOn ==
    \E i \in Ids, name \in Names, caPassword \in CallerPasswords :
        /\ instances[i].made
        /\ \E d \in {renew(stores[Own(i)], stores[ToolPath], name, Undefined,
                           Undefined, caPassword, 0, FALSE)} :
           Settle(i, Call("renew", name, Undefined, Undefined, caPassword, "",
                          FALSE, 0, d), d)
        /\ UNCHANGED taRunning

GenCrlOn ==
    \E i \in Ids, caPassword \in CallerPasswords :
        /\ instances[i].made
        /\ \E d \in {genCrl(stores[Own(i)], stores[ToolPath], caPassword, 0, FALSE)} :
           Settle(i, Call("genCrl", <<>>, Undefined, Undefined, caPassword, "",
                          FALSE, 0, d), d)
        /\ UNCHANGED taRunning

NextInstances ==
    \/ NewInstance
    \/ InitPkiOn
    \/ BuildCaOn
    \/ CreateClientOn
    \/ RevokeOn
    \/ RenewOn
    \/ GenCrlOn
    \/ TaKeyExit

SpecInstances == InitInstances /\ [][NextInstances]_vars


\* ------------------------------------------------------------ properties

\* The operations that need the CA.
CaOps == {"createServer", "createClient", "revoke", "renew", "genCrl"}

CreateOps == {"createServer", "createClient"}

Rejected(name) == last.outcome.kind = "rejected" /\ last.outcome.name = name

Resolved == last.outcome.kind = "resolved"

\* A caPassword is given when the call carries one that is not empty.
GivenPw == Truthy(last.caPassword)

\* The caPassword of the call is the one the CA key was encrypted with: the
\* word the tool receives for it is the word it received at build-ca.
CorrectPw == GivenPw /\ ShellWords(escapeShell(last.caPassword)) = <<last.pre.caPass>>

\* The CA of the key-store before the call can be used by the call.
UsableCa ==
    \/ last.pre.ca = "plain"
    \/ last.pre.ca = "enc" /\ CorrectPw

\* A call of revoke carries one of the reasons of RevokeReason.
ValidReason == last.op = "revoke" => last.reason \in RevokeReason

\* The target of the call is there to act on: no certificate of the name for
\* an issuance, one for a revocation or a renewal.
TargetInOrder ==
    CASE last.op \in CreateOps -> last.name \notin last.pre.issued
      [] last.op \in {"revoke", "renew"} -> last.name \in last.pre.issued
      [] OTHER -> TRUE

\* C1: on a key-store whose CA key is encrypted, a CA-dependent operation
\* (revoke with a valid reason, the target there to act on) rejects with
\* PrivateKeyIsEncryptedError without caPassword, with BadCaPasswordError with
\* a caPassword that is not the one of the CA, and resolves with the right one.
C1_ProtectedCaPassword ==
    (last.op \in CaOps /\ last.pre.ca = "enc" /\ ValidReason) =>
        /\ ~GivenPw => Rejected("PrivateKeyIsEncryptedError")
        /\ (GivenPw /\ ~CorrectPw /\ TargetInOrder) => Rejected("BadCaPasswordError")
        /\ (CorrectPw /\ TargetInOrder) => Resolved

\* C2: a CA-dependent operation called without caPassword (revoke with a valid
\* reason) rejects with CaNotFoundError when the CA key file is absent and with
\* PrivateKeyIsEncryptedError when the file holds the encryption marker, and in
\* both cases it has run no command of the tool and left the key-store as it was.
C2_PreconditionBeforeSubprocess ==
    (last.op \in CaOps /\ ~GivenPw /\ ValidReason) =>
        /\ CaKeyFile(last.pre) = <<>> =>
              Rejected("CaNotFoundError") /\ Len(last.cmds) = 0 /\ store = last.pre
        /\ Includes(CaKeyFile(last.pre), EncryptedMarker) =>
              Rejected("PrivateKeyIsEncryptedError") /\ Len(last.cmds) = 0
              /\ store = last.pre

\* C2 witness: renew without caPassword on an encrypted CA key was rejected
\* with PrivateKeyIsEncryptedError.
C2_Witness ==
    /\ last.op = "renew" /\ ~GivenPw /\ last.pre.ca = "enc"
    /\ Rejected("PrivateKeyIsEncryptedError") /\ Len(last.cmds) = 0

\* C3: on a key-store that was never initialized, buildCa rejects with
\* PkiDirNotFoundError, and a CA-dependent operation (revoke with a valid
\* reason) rejects with CaNotFoundError without caPassword and with
\* PkiDirNotFoundError with one.
C3_UninitializedStore ==
    (~last.pre.init /\ ValidReason) =>
        /\ last.op = "buildCa" => Rejected("PkiDirNotFoundError")
        /\ (last.op \in CaOps /\ ~GivenPw) => Rejected("CaNotFoundError")
        /\ (last.op \in CaOps /\ GivenPw) => Rejected("PkiDirNotFoundError")

\* C4: on an initialized key-store with no CA, a CA-dependent operation (revoke
\* with a valid reason) rejects with CaNotFoundError, with a caPassword and
\* without one.
C4_InitializedWithoutCa ==
    (last.op \in CaOps /\ last.pre.init /\ last.pre.ca = "none" /\ ValidReason) =>
        Rejected("CaNotFoundError")

\* C5: buildCa on a key-store that holds a CA rejects with CaAlreadyExistsError
\* and leaves the key-store, its CA key and the password of it, as it was.
C5_SecondBuildCa ==
    (last.op = "buildCa" /\ last.pre.ca # "none") =>
        Rejected("CaAlreadyExistsError") /\ store = last.pre

\* C5 witness: a buildCa with a password was rejected on a key-store whose CA
\* was built without one.
C5_Witness ==
    /\ last.op = "buildCa" /\ last.pre.ca = "plain" /\ Truthy(last.password)
    /\ Rejected("CaAlreadyExistsError") /\ store.ca = "plain"

\* C6: with a usable CA, createServer or createClient for a name with no
\* issued certificate resolves and leaves an issued certificate and a request
\* with its private key for the name; for a name that has an issued
\* certificate it rejects with CertificateAlreadyExistsError.
C6_IssueThenConflict ==
    (last.op \in CreateOps /\ UsableCa) =>
        /\ last.name \notin last.pre.issued =>
              Resolved /\ last.name \in store.issued /\ last.name \in store.reqs
        /\ last.name \in last.pre.issued => Rejected("CertificateAlreadyExistsError")

\* C6 witness: createClient with the right caPassword of an encrypted CA was
\* rejected for a name that an earlier call had issued a certificate for.
C6_Witness ==
    /\ last.op = "createClient" /\ last.pre.ca = "enc" /\ CorrectPw
    /\ last.name \in last.pre.issued /\ Rejected("CertificateAlreadyExistsError")

\* What C7 says of one call.
C7_Call ==
    /\ (last.op = "revoke" /\ last.reason = "unspecified" /\ UsableCa) =>
          /\ last.name \notin last.pre.issued => Rejected("CertificateNotFoundError")
          /\ last.name \in last.pre.issued =>
                /\ Resolved
                /\ last.name \in store.revoked
                /\ last.name \notin store.issued
    /\ (last.op = "renew" /\ ~Truthy(last.commonName) /\ ~Truthy(last.password)
        /\ UsableCa /\ last.name \notin last.pre.issued) =>
          Rejected("CertificateNotFoundError")
    /\ (last.op = "genCrl" /\ Resolved) =>
          store.hasCrl /\ store.crl = store.revoked

\* A revoked name stays revoked until initPki makes the key-store anew.
C7_StaysRevoked == last'.op = "initPki" \/ store.revoked \subseteq store'.revoked

\* C7: with a usable CA, revoke({name, reason: unspecified}) and renew({name})
\* reject with CertificateNotFoundError for a name with no issued certificate;
\* revoke of a name with one resolves and the name is revoked, it stays so, and
\* a revocation list generated later lists every name revoked by then.
C7_RevokeAndRenewTargets == []C7_Call /\ [][C7_StaysRevoked]_vars

\* C7 witness: revoke with reason unspecified resolved for a name with an
\* issued certificate, and the name is now revoked.
C7_Witness ==
    /\ last.op = "revoke" /\ last.reason = "unspecified" /\ UsableCa
    /\ last.name \in last.pre.issued /\ Resolved /\ last.name \in store.revoked

\* C8: a construction whose digest is given and is none of Digest, or whose
\* curve is given and is none of Curve, throws and writes no settings file; a
\* construction whose digest and curve are each of its set or left out
\* succeeds.
C8_ConfigValidation ==
    ctor.called =>
        /\ (Given(ctor.args, "digest") /\ ctor.args.digest \notin Digest) =>
              ctor.threw /\ ~ctor.wrote
        /\ (Given(ctor.args, "curve") /\ ctor.args.curve \notin Curve) =>
              ctor.threw /\ ~ctor.wrote
        /\ ((Given(ctor.args, "digest") => ctor.args.digest \in Digest)
            /\ (Given(ctor.args, "curve") => ctor.args.curve \in Curve)) =>
              ~ctor.threw

\* C9: revoke with a reason that is none of RevokeReason rejects with the
\* validation error, whatever the key-store and the caPassword: the CA key file
\* was not read, no command of the tool was run, the key-store is as it was.
C9_ReasonValidatedFirst ==
    (last.op = "revoke" /\ last.reason \notin RevokeReason) =>
        /\ Rejected("Error") /\ last.outcome.text = <<"Reason is not valid">>
        /\ ~last.keyRead
        /\ Len(last.cmds) = 0
        /\ store = last.pre

\* C9 witness: revoke with an unknown reason and no caPassword was rejected on
\* a key-store whose CA key is encrypted.
C9_Witness ==
    /\ last.op = "revoke" /\ last.reason \notin RevokeReason
    /\ last.pre.ca = "enc" /\ ~GivenPw /\ Rejected("Error")

\* The run of the tool that was set to fail for a reason of its own took
\* place: it exited non-zero with an output that holds no known pattern.
UnclassifiedFailure == last.fault \in 1..MaxCommands /\ Len(last.cmds) >= last.fault

\* The message of the Error an operation throws in place of a bare string.
FailMessage(op) ==
    CASE op = "buildCa" -> <<"Fail to build CA">>
      [] op \in CreateOps -> <<"Fail to create certificate">>
      [] op = "revoke" -> <<"Fail to create client">>
      [] op = "renew" -> <<"Fail to renew certificate">>
      [] OTHER -> <<"Fail to create crl">>

PublicOps == {"initPki", "buildCa"} \cup CaOps

\* The call resolved with the text, a string.
ResolvedWith(text) ==
    Resolved /\ last.outcome.name = "string" /\ last.outcome.text = text

\* C11 as stated: a public operation that resolves, resolves with the stdout
\* that a run of the tool of that call wrote.
C11_EveryOperationResolvesWithStdout ==
    (last.op \in PublicOps /\ Resolved) =>
        \E i \in 1..Len(last.runs) : ResolvedWith(last.runs[i].stdout)

\* C11: a public operation that resolves has run all its commands with exit
\* code zero; initPki, buildCa and genCrl resolve with the stdout of their one
\* command, createServer and createClient with that of sign-req, renew with
\* that of the renew command (not of revoke-renewed), and revoke resolves with
\* undefined.
C11_ResolvedValues ==
    (last.op \in PublicOps /\ Resolved) =>
        /\ \A i \in 1..Len(last.runs) : last.runs[i].code = 0
        /\ last.op \in {"initPki", "buildCa", "genCrl"} =>
              Len(last.runs) = 1 /\ ResolvedWith(last.runs[1].stdout)
        /\ last.op \in CreateOps =>
              Len(last.runs) = 2 /\ ResolvedWith(last.runs[2].stdout)
        /\ last.op = "renew" =>
              /\ Len(last.runs) = 2
              /\ ResolvedWith(last.runs[1].stdout)
              /\ ~ResolvedWith(last.runs[2].stdout)
        /\ last.op = "revoke" =>
              Len(last.runs) = 1 /\ last.outcome.name = "undefined"

\* C11 witness: revoke resolved, with undefined, after the tool wrote its
\* stdout and exited zero.
C11_Witness ==
    /\ last.op = "revoke" /\ Resolved /\ last.outcome.name = "undefined"
    /\ Len(last.runs) = 1 /\ last.runs[1].code = 0 /\ last.runs[1].stdout # <<>>

\* The value stands in the command at position i in the form of escapeShell,
\* one pair of double quotes around the escaped characters, and ends there.
QuotedAt(cmd, i, value) ==
    LET q == escapeShell(value)
        end == i + Len(q) - 1
    IN /\ end <= Len(cmd)
       /\ SubSeq(cmd, i, end) = q
       /\ end = Len(cmd) \/ cmd[end + 1] = SP

\* The value that the call gives for an option of the tool: buildCa gives its
\* password for both the pass-in and the pass-out option.
ValueOf(flag) ==
    CASE flag = "--req-cn=" -> last.commonName
      [] flag = "--passin=pass:" ->
            IF last.op = "buildCa" THEN last.password ELSE last.caPassword
      [] OTHER -> last.password

\* C12: in every command that a call built, the value of each option and the
\* target name stand as escapeShell makes them: the value with its double
\* quote, single quote, backtick, dollar and backslash characters each behind a
\* backslash, inside exactly one pair of double quotes.
C12_ValuesQuotedOnce ==
    \A k \in 1..Len(last.cmds) :
        LET cmd == last.cmds[k]
        IN \A i \in 1..Len(cmd) :
              /\ cmd[i] \in OptionNames => QuotedAt(cmd, i + 1, ValueOf(cmd[i]))
              /\ cmd[i] \in {"gen-req", "revoke", "renew", "revoke-renewed"} =>
                    QuotedAt(cmd, i + 2, last.name)
              /\ cmd[i] = "sign-req" => QuotedAt(cmd, i + 4, last.name)

\* The positional words that the tool gets after the command word c.
WordsAfter(words, c) ==
    LET pos == Positional(words)
    IN IF pos # <<>> /\ pos[1] = <<c>> THEN Tail(pos) ELSE << <<"<no such command>">> >>

\* C13: of every command that a call built, the shell hands the tool each
\* option with exactly the value of the call and the target name as it was
\* given, and nothing else: the words are the options, the command word and
\* its arguments.
C13_RoundTrip ==
    \A k \in 1..Len(last.cmds) :
        LET cmd == last.cmds[k]
            words == SpawnWords(cmd)
            has(t) == \E i \in 1..Len(cmd) : cmd[i] = t
            nopass == IF has("nopass") THEN << <<"nopass">> >> ELSE <<>>
        IN /\ \A flag \in OptionNames :
                 has(flag) => OptVal(words, flag) = ValueOf(flag)
           /\ \A i \in 1..Len(words) : IsOption(words[i]) => has(words[i][1])
           /\ has("build-ca") => WordsAfter(words, "build-ca") = nopass
           /\ has("gen-req") => WordsAfter(words, "gen-req") = <<last.name>> \o nopass
           /\ has("sign-req") => WordsAfter(words, "sign-req")[2] = last.name
           /\ has("revoke") =>
                 WordsAfter(words, "revoke") = <<last.name, <<last.reason>> >>
           /\ has("renew") => WordsAfter(words, "renew") = <<last.name>> \o nopass
           /\ has("revoke-renewed") =>
                 WordsAfter(words, "revoke-renewed") = <<last.name>>
           /\ has("gen-crl") => WordsAfter(words, "gen-crl") = <<>>

\* The errors of the rows of the classification table, in its order.
RowError ==
    <<"CaAlreadyExistsError", "PkiDirNotFoundError", "BadCaPasswordError",
      "CaNotFoundError", "CertificateAlreadyExistsError", "CertificateNotFoundError">>

\* The output of the process that was closed.
Out == last.runs[1]

\* The output holds the text that the table of the specification gives for
\* the row.
TableRow(i) ==
    CASE i = 1 -> Includes(Out.stdout, <<"already seem to have one set up">>)
      [] i = 2 -> Includes(Out.stdout,
                           <<"PKI does not exist (perhaps you need to run init", ")">>)
      [] i = 3 -> /\ Includes(Out.stderr, <<"Could not read CA private key from">>)
                  /\ Includes(Out.stderr, <<"wrong password">>)
      [] i = 4 -> Includes(Out.stdout, <<"Missing expected CA file">>)
      [] i = 5 -> Includes(Out.stdout, <<"Conflicting certificate exists at">>)
      [] OTHER -> \/ Includes(Out.stdout, <<"no certificate was found">>)
                  \/ Includes(Out.stdout, <<"Missing certificate file">>)

\* The output holds the text that the close handler looks for in the row.
HandlerRow(i) ==
    CASE i = 1 -> Includes(Out.stdout, <<"Unable to create a CA as you ",
                                         "already seem to have one set up", ".">>)
      [] i = 2 -> Includes(Out.stdout,
                           <<"EASYRSA_", "PKI does not exist (perhaps you need to run init",
                             "-pki)?">>)
      [] i = 3 -> /\ Includes(Out.stderr, <<"Could not read CA private key from">>)
                  /\ Includes(Out.stderr, <<"maybe ", "wrong password">>)
      [] i = 4 -> Includes(Out.stdout, <<"Missing expected CA file">>)
      [] i = 5 -> Includes(Out.stdout, <<"Conflicting certificate exists at">>)
      [] OTHER -> \/ Includes(Out.stdout, <<"Unable to revoke as ",
                                            "no certificate was found">>)
                  \/ Includes(Out.stdout, <<"Missing certificate file">>)

\* C14 as stated: on a non-zero exit, an output that holds the text of the
\* table for one row only is rejected with the error of that row.
C14_TableTextSelectsError ==
    (last.op = "close" /\ Out.code # 0) =>
        \A i \in 1..6 :
            (TableRow(i) /\ \A j \in 1..6 \ {i} : ~TableRow(j)) => Rejected(RowError[i])

\* C14: on a non-zero exit, an output that holds the text the close handler
\* looks for (the whole sentence of the tool: Unable to create a CA as you
\* already seem to have one set up. / EASYRSA_PKI does not exist (perhaps you
\* need to run init-pki)? / Could not read CA private key from and maybe wrong
\* password / Missing expected CA file / Conflicting certificate exists at /
\* Unable to revoke as no certificate was found or Missing certificate file)
\* for one row only is rejected with the error of that row.
C14_HandlerTextSelectsError ==
    (last.op = "close" /\ Out.code # 0) =>
        \A i \in 1..6 :
            (HandlerRow(i) /\ \A j \in 1..6 \ {i} : ~HandlerRow(j)) =>
                Rejected(RowError[i])

\* C14 witness: a process exited non-zero with Missing certificate file as
\* the only known text of its output, and the rejection is
\* CertificateNotFoundError.
C14_Witness ==
    /\ last.op = "close" /\ Out.code # 0
    /\ Includes(Out.stdout, <<"Missing certificate file">>)
    /\ \A j \in 1..5 : ~HandlerRow(j)
    /\ Rejected("CertificateNotFoundError")

\* C15: on a non-zero exit the rejection is the error of the first row, in the
\* order of the table, whose text the output holds, and the stderr text when
\* it holds none; on a zero exit the promise resolves with stdout, whatever
\* the output holds.
C15_FirstMatchWins ==
    last.op = "close" =>
        /\ Out.code # 0 =>
              /\ \A i \in 1..6 :
                    (HandlerRow(i) /\ \A j \in 1..(i - 1) : ~HandlerRow(j)) =>
                        Rejected(RowError[i])
              /\ (\A i \in 1..6 : ~HandlerRow(i)) =>
                    /\ last.outcome.kind = "rejected" /\ ~last.outcome.isError
                    /\ last.outcome.text = Out.stderr
        /\ Out.code = 0 => ResolvedWith(Out.stdout)

\* C15 witness: a process exited non-zero with the texts of three rows in its
\* output, a missing CA file, a certificate in the way and a missing
\* certificate, and the rejection is that of the first of them.
C15_Witness ==
    /\ last.op = "close" /\ Out.code # 0
    /\ ~HandlerRow(1) /\ ~HandlerRow(2) /\ ~HandlerRow(3)
    /\ HandlerRow(4) /\ HandlerRow(5) /\ HandlerRow(6)
    /\ Rejected("CaNotFoundError")

\* The command words of the tool in the order in which the operation is to
\* run them.
CommandList(op) ==
    CASE op = "initPki" -> <<"init-pki">>
      [] op = "buildCa" -> <<"build-ca">>
      [] op \in CreateOps -> <<"gen-req", "sign-req">>
      [] op = "revoke" -> <<"revoke">>
      [] op = "renew" -> <<"renew", "revoke-renewed">>
      [] OTHER -> <<"gen-crl">>

\* The command words that stand in a command line.
CommandWords(cmd) == {c \in Commands : \E i \in 1..Len(cmd) : cmd[i] = c}

\* C16: the commands that a call ran are the first ones of the list of its
\* operation, each once and in order; every one but the last exited zero; the
\* call stopped before the end of the list only when no command was run (the
\* call failed before) or the last one run exited non-zero, and then it is
\* rejected; a call resolves only after the whole list.
C16_CommandsArePrefix ==
    last.op \in PublicOps =>
        LET n == Len(last.cmds)
            list == CommandList(last.op)
        IN /\ n <= Len(list)
           /\ Len(last.runs) = n
           /\ \A k \in 1..n : CommandWords(last.cmds[k]) = {list[k]}
           /\ \A k \in 1..(n - 1) : last.runs[k].code = 0
           /\ (n > 0 /\ last.runs[n].code # 0) => last.outcome.kind = "rejected"
           /\ n < Len(list) =>
                 /\ last.outcome.kind = "rejected"
                 /\ n = 0 \/ last.runs[n].code # 0
           /\ Resolved => n = Len(list)

\* C16 witness: on a key-store with a CA the first command of createClient
\* exited non-zero, and the call was rejected with that one command run.
C16_Witness ==
    /\ last.op = "createClient" /\ last.pre.ca # "none"
    /\ Len(last.cmds) = 1 /\ last.runs[1].code # 0
    /\ last.outcome.kind = "rejected"

\* The place of a command word in a command line (0 when it is not there).
PlaceOf(cmd, word) ==
    IF \E i \in 1..Len(cmd) : cmd[i] = word
    THEN CHOOSE i \in 1..Len(cmd) : cmd[i] = word
    ELSE 0

\* C17: the first command of renew is the renew command for the escaped name;
\* once it exited zero the second command is run, and it is the first one's
\* options (the same pass-in and pass-out flags) followed by revoke-renewed
\* and the same escaped name; renew resolves exactly when both exited zero,
\* and when revoke-renewed exits non-zero renew is rejected with the error the
\* close handler makes of that step's output.
C17_RenewThenRevokeRenewed ==
    last.op = "renew" =>
        LET n == Len(last.cmds)
            esc == escapeShell(last.name)
            i == PlaceOf(last.cmds[1], "renew")
            flags == SubSeq(last.cmds[1], 1, i - 1)
            passin == <<"--passin=pass:">> \o escapeShell(last.caPassword)
            passout == <<"--passout=pass:">> \o escapeShell(last.password)
        IN /\ n >= 1 =>
                /\ i > 0
                /\ SubSeq(last.cmds[1], i + 1, i + 1 + Len(esc)) = <<SP>> \o esc
                /\ Truthy(last.caPassword) <=> Includes(flags, passin)
                /\ Truthy(last.password) <=> Includes(flags, passout)
           /\ (n >= 1 /\ last.runs[1].code = 0) => n = 2
           /\ n = 2 =>
                /\ last.runs[1].code = 0
                /\ last.cmds[2] = flags \o <<"revoke-renewed", SP>> \o esc
           /\ Resolved <=> (n = 2 /\ last.runs[1].code = 0 /\ last.runs[2].code = 0)
           /\ (n = 2 /\ last.runs[2].code # 0) =>
                last.outcome = Catch(Close(last.runs[2].code, last.runs[2].stdout,
                                           last.runs[2].stderr),
                                     <<"Fail to renew certificate">>)

\* C17 witness: the renew command succeeded and moved the certificate, then
\* revoke-renewed reported that it found no certificate, and renew was
\* rejected with CertificateNotFoundError.
C17_Witness ==
    /\ last.op = "renew" /\ Len(last.cmds) = 2
    /\ last.runs[1].code = 0 /\ last.runs[2].code # 0
    /\ last.name \in store.renewed /\ last.name \notin last.pre.renewed
    /\ last.outcome.kind = "rejected"
    /\ last.outcome.name = "CertificateNotFoundError"

\* C18: initPki runs init-pki alone; when that exits zero initPki has resolved
\* with its stdout and the ta.key generation it started is still running,
\* whatever number of earlier ones are; when it exits non-zero initPki is
\* rejected with what the close handler makes of the output and no ta.key
\* generation is started.
C18_InitPkiOutcomeIsInitCommand ==
    last.op = "initPki" =>
        /\ Len(last.runs) = 1
        /\ last.runs[1].code = 0 =>
              /\ ResolvedWith(last.runs[1].stdout)
              /\ last.spawned /\ taRunning > 0
        /\ last.runs[1].code # 0 =>
              /\ last.outcome = Close(last.runs[1].code, last.runs[1].stdout,
                                      last.runs[1].stderr)
              /\ last.outcome.kind = "rejected"
              /\ ~last.spawned

\* C18 witness: initPki has resolved with the output of init-pki while the
\* ta.key generation it started has not finished.
C18_Witness ==
    /\ last.op = "initPki" /\ last.runs[1].code = 0
    /\ last.outcome.kind = "resolved" /\ last.outcome.text = last.runs[1].stdout
    /\ last.spawned /\ taRunning > 0

\* C19: in a process with instances of different key-store paths, a call on an
\* instance reads the CA key in the key-store of that instance, and every
\* command it runs acts on the key-store of that instance.
C19_OwnKeyStore ==
    (last.op \in PublicOps /\ last.self \in Ids) =>
        /\ last.keyRead => last.keyPath = instances[last.self].options.pki
        /\ Len(last.cmds) > 0 => last.toolPath = instances[last.self].options.pki

\* C20: the command of initPki is init-pki hard when the call has no argument
\* or force is true, and init-pki soft when force is false; after a call with
\* force true (given or by default) that resolved, the key-store is
\* initialized and holds no CA, no request and no certificate.
C20_ForceSelectsInitCommand ==
    last.op = "initPki" =>
        LET hard == ~last.given \/ last.force
        IN /\ Len(last.cmds) = 1
           /\ hard => last.cmds[1] = <<"init-pki", SP, "hard">>
           /\ ~hard => last.cmds[1] = <<"init-pki", SP, "soft">>
           /\ (hard /\ Resolved) =>
                 /\ store.init /\ store.ca = "none"
                 /\ store.issued = {} /\ store.reqs = {}
                 /\ store.renewed = {} /\ store.revoked = {}

\* C20 witness: initPki without an argument resolved on a key-store that held
\* a CA and a certificate, and left it initialized and empty.
C20_Witness ==
    /\ last.op = "initPki" /\ ~last.given /\ Resolved
    /\ last.pre.ca # "none" /\ last.pre.issued # {}
    /\ last.cmds[1] = <<"init-pki", SP, "hard">>
    /\ store = EmptyStore

\* C21: after a buildCa that resolved, the CA key file holds the encryption
\* marker exactly when a password was given; without one the key is plain, and
\* with one the key is encrypted with the password as the caller gave it.
C21_MarkerIffPassword ==
    (last.op = "buildCa" /\ Resolved) =>
        /\ Truthy(last.password) <=> Includes(CaKeyFile(store), EncryptedMarker)
        /\ ~Truthy(last.password) => store.ca = "plain"
        /\ Truthy(last.password) => (store.ca = "enc" /\ store.caPass = last.password)

\* The documented defaults, and the fields that the configuration knows.
Documented ==
    [algo |-> "rsa", digest |-> "sha256", keySize |-> 2048, days |-> 3650,
     certDays |-> 825, curve |-> "sect571r1"]

\* The configuration of the instance made has the recognized fields and no
\* other; each field but pki is the caller's value if the field is among the
\* arguments and else the documented default.
FieldsResolved ==
    /\ DOMAIN instance.options = DOMAIN Documented \cup {"pki"}
    /\ \A k \in DOMAIN Documented :
          instance.options[k] =
             IF k \in DOMAIN ctor.args THEN ctor.args[k] ELSE Documented[k]

\* The pki of the configuration for a path that counts as given: kept if it
\* starts at the root, else put after the working directory.
PkiResolved(given) ==
    instance.options.pki =
       IF given
       THEN (IF ctor.args.pki # <<>> /\ ctor.args.pki[1] = "/"
             THEN ctor.args.pki ELSE <<"/", "work">> \o ctor.args.pki)
       ELSE <<"/", "pkg", "easyrsa", "pki">>

\* C22 as stated: every field of the configuration, pki included, is resolved
\* from the caller's value whenever the field is among the arguments.
C22_GivenOrDefault ==
    (ctor.called /\ ~ctor.threw) =>
        FieldsResolved /\ PkiResolved("pki" \in DOMAIN ctor.args)

\* C22 amended: as stated, but a pki that is the empty string counts as left
\* out, and the configuration has the default key-store path.
C22_GivenOrDefaultNonEmptyPki ==
    (ctor.called /\ ~ctor.threw) =>
        FieldsResolved
        /\ PkiResolved("pki" \in DOMAIN ctor.args /\ ctor.args.pki # <<>>)

\* C22 witness: a construction with a relative pki, a key size of 0, an
\* unrecognized field and no digest has made an instance.
C22_Witness ==
    /\ scope = "options" /\ ctor.called /\ ~ctor.threw /\ instance.made
    /\ "verbose" \in DOMAIN ctor.args /\ "digest" \notin DOMAIN ctor.args
    /\ "keySize" \in DOMAIN ctor.args /\ ctor.args.keySize = 0
    /\ "pki" \in DOMAIN ctor.args /\ ctor.args.pki = <<".tmp", "pki">>
    /\ instance.options.pki = <<"/", "work", ".tmp", "pki">>
    /\ instance.options.keySize = 0 /\ instance.options.digest = "sha256"

\* A command line holds the no-passphrase argument; it holds a pass-out flag.
HasNoPass(cmd) == \E i \in 1..Len(cmd) : cmd[i] = "nopass"
HasPassOut(cmd) == \E i \in 1..Len(cmd) : cmd[i] = "--passout=pass:"

\* C23: the first command of buildCa (build-ca), of createServer and
\* createClient (gen-req) and of renew (renew) holds the no-passphrase
\* argument exactly when the call has no subject password, and a pass-out flag
\* exactly when it has one; no command of any call holds both.
C23_NoPassIffNoPassword ==
    /\ (last.op \in {"buildCa", "createServer", "createClient", "renew"}
        /\ Len(last.cmds) > 0) =>
           /\ CommandWords(last.cmds[1]) \subseteq {"build-ca", "gen-req", "renew"}
           /\ HasNoPass(last.cmds[1]) <=> ~Truthy(last.password)
           /\ HasPassOut(last.cmds[1]) <=> Truthy(last.password)
    /\ \A k \in 1..Len(last.cmds) :
           ~(HasNoPass(last.cmds[k]) /\ HasPassOut(last.cmds[k]))

\* C23 witness: createClient with a subject password has built a gen-req
\* command with a pass-out flag and without the no-passphrase argument.
C23_Witness ==
    /\ last.op = "createClient" /\ Truthy(last.password) /\ Len(last.cmds) > 0
    /\ CommandWords(last.cmds[1]) = {"gen-req"}
    /\ HasPassOut(last.cmds[1]) /\ ~HasNoPass(last.cmds[1])

\* C24: when a ta.key generation ends, the failure message is logged exactly
\* when that generation failed.
C24_LoggedIffFailed ==
    last.op = "taKeyExit" => (last.logged <=> last.taFailed)

\* C25: a run is settled at most once and not before its close event; at the
\* close event it is settled once, on the whole of what the tool wrote to
\* stdout and to stderr: exit code 0 resolves with all of stdout, and a
\* non-zero exit code with the report of an existing CA in stdout rejects with
\* CaAlreadyExistsError in however many chunks the report came.
C25_SettledOnceOnWholeOutput ==
    /\ proc.settled <= 1
    /\ ~proc.closed => proc.settled = 0
    /\ proc.closed =>
          /\ proc.settled = 1
          /\ proc.stdout = proc.allOut /\ proc.stderr = proc.allErr
          /\ proc.outcome = Close(proc.code, proc.allOut, proc.allErr)
          /\ proc.code = 0 =>
                /\ proc.outcome.kind = "resolved"
                /\ proc.outcome.text = proc.allOut
          /\ (proc.code # 0
              /\ Includes(proc.allOut, <<"Unable to create a CA as you ",
                                         "already seem to have one set up", ".">>)) =>
                /\ proc.outcome.kind = "rejected"
                /\ proc.outcome.name = "CaAlreadyExistsError"

\* C25 witness: the report of an existing CA came in two chunks, cut inside
\* the text the handler looks for, and the run was rejected with
\* CaAlreadyExistsError.
C25_Witness ==
    /\ scope = "stream" /\ proc.closed /\ proc.code # 0
    /\ proc.cutOut = << <<"Easy-RSA error: ", "Unable to create a CA as you ">>,
                        <<"already seem to have one set up", ".", " (see the log)">> >>
    /\ proc.stdout = proc.allOut
    /\ proc.outcome.name = "CaAlreadyExistsError"
    /\ last.op = "none"

\* The instances constructed so far.
Made == {i \in Ids : instances[i].made}

\* C26: whatever operations were called, with whatever result, every instance
\* has the configuration that its construction resolved, the settings file
\* was written once for each construction, and it holds the configuration of
\* the last construction.
C26_OperationsKeepConfiguration ==
    scope = "instances" =>
        /\ \A i \in Made : instances[i].options = Constructor(InstanceArgs(i)).options
        /\ varsFile.writes = Cardinality(Made)
        /\ ctor.called => varsFile.content = Constructor(ctor.args).options

\* C26 witness: after both constructions a call on the first instance was
\* rejected, and one before had resolved and changed a key-store.
C26_Witness ==
    /\ Made = Ids /\ varsFile.writes = 2
    /\ last.op \in CaOps /\ last.self = 1 /\ last.outcome.kind = "rejected"
    /\ \E p \in StorePaths : stores[p].init
    /\ instances[1].options.pki = <<"/", "work", ".tmp", "pki">>

\* What the last call, one on the CA, does when it is made on the same
\* key-store with another caPassword.
AsCalledWith(caPassword) ==
    CASE last.op = "createServer" ->
            createCert(last.pre, last.pre, "server", last.name, last.commonName,
                       last.password, caPassword, last.fault, FALSE)
      [] last.op = "createClient" ->
            createCert(last.pre, last.pre, "client", last.name, last.commonName,
                       last.password, caPassword, last.fault, FALSE)
      [] last.op = "revoke" ->
            revoke(last.pre, last.pre, last.name, last.reason, caPassword,
                   last.fault, FALSE)
      [] last.op = "renew" ->
            renew(last.pre, last.pre, last.name, last.commonName, last.password,
                  caPassword, last.fault, FALSE)
      [] OTHER -> genCrl(last.pre, last.pre, caPassword, last.fault, FALSE)

\* C27: a call on the CA with the empty string as caPassword ends as the same
\* call without caPassword: same result, same commands, same key-store.  With
\* either (and, for revoke, a valid reason) the CA key file is read, an
\* encrypted key rejects with PrivateKeyIsEncryptedError and a missing one
\* with CaNotFoundError, both without a command, and no command has a pass-in
\* flag.  With a caPassword that is not empty the CA key file is not read.
C27_EmptyCaPasswordIsAbsent ==
    last.op \in CaOps =>
        /\ last.caPassword = <<>> =>
              LET d == AsCalledWith(<<"undefined">>)
              IN /\ last.outcome = d.outcome
                 /\ last.cmds = d.cmds
                 /\ last.keyRead = d.keyRead
                 /\ store = d.st
        /\ (last.caPassword \in {<<>>, <<"undefined">>} /\ ValidReason) =>
              /\ last.keyRead
              /\ last.pre.ca = "enc" =>
                    Rejected("PrivateKeyIsEncryptedError") /\ Len(last.cmds) = 0
              /\ last.pre.ca = "none" =>
                    Rejected("CaNotFoundError") /\ Len(last.cmds) = 0
              /\ \A k \in 1..Len(last.cmds) :
                    \A i \in 1..Len(last.cmds[k]) : last.cmds[k][i] # "--passin=pass:"
        /\ (last.caPassword # <<>> /\ last.caPassword # <<"undefined">>) =>
              ~last.keyRead

\* C27 witness: genCrl with the empty string as caPassword on an encrypted CA
\* key read the key file and was rejected with PrivateKeyIsEncryptedError.
C27_Witness ==
    /\ last.op = "genCrl" /\ last.caPassword = <<>> /\ last.pre.ca = "enc"
    /\ last.keyRead /\ Len(last.cmds) = 0
    /\ Rejected("PrivateKeyIsEncryptedError")

\* A step that is a call of initPki.
InitPkiStep == last'.op = "initPki" /\ <<last, taRunning>>' # <<last, taRunning>>

\* C28: a call of initPki runs init-pki first; when that exited zero the call
\* starts one ta.key generation, and when it exited non-zero the call starts
\* none and is rejected with what the close handler makes of the failure.
C28_TaKeyAfterInitPki ==
    [][InitPkiStep =>
          /\ Len(last'.runs) = 1
          /\ last'.runs[1].code = 0 =>
                last'.spawned /\ taRunning' = taRunning + 1
          /\ last'.runs[1].code # 0 =>
                /\ ~last'.spawned /\ taRunning' = taRunning
                /\ last'.outcome.kind = "rejected"
                /\ last'.outcome = Close(last'.runs[1].code, last'.runs[1].stdout,
                                         last'.runs[1].stderr)]_vars

\* C28 witness: init-pki exited non-zero, initPki was rejected and no ta.key
\* generation is running.
C28_Witness ==
    /\ last.op = "initPki" /\ last.runs[1].code # 0
    /\ last.outcome.kind = "rejected" /\ ~last.spawned /\ taRunning = 0

====
